---- MODULE Spec2Model ----
(***************************************************************************)
(* Model of the AutoSenseAI prediction core and orchestration sequencer:   *)
(*   src/predictive_engine.py  PredictiveMaintenanceEngine                 *)
(*   src/telemetry.py          analyze_telemetry_anomalies                 *)
(*   src/agents.py             PredictionAgent, DiagnosisAgent,            *)
(*                             SchedulingAgent, CustomerAgent, MasterAgent *)
(*   src/database.py           the tables orchestrate writes               *)
(*                                                                         *)
(* Numbers.  The code computes in floating point; the model computes the   *)
(* same expressions exactly, over integers:                                *)
(*   telemetry values, band bounds     hundredths   (150.0  -> 15000)      *)
(*   scores rounded to 1 decimal       tenths       (54.2   -> 542)        *)
(*   failure_risk rounded to 3         thousandths  (0.365  -> 365)        *)
(*   deviation rounded to 2            hundredths                          *)
(*   probabilities of the classifier   percent      (0.7    -> 70)         *)
(*   thresholds, multipliers           as noted at each definition         *)
(* round(x, n) is round-half-to-even on the exact value.  Where the exact   *)
(* value is halfway between two neighbours the code's result hangs on the  *)
(* binary floating-point value (and on numpy's or Python's way to round     *)
(* it), which integers do not model: the readings the model draws leave    *)
(* out those on which a rounding of the engine or of the diagnosis mapper  *)
(* falls on such a tie (OnRoundingTie).                                    *)
(***************************************************************************)
EXTENDS Integers, Sequences, FiniteSets, TLC

VARIABLES
    pc,                \* position of the caller / of orchestrate
    passes,            \* orchestrate passes started so far
    telemetry,         \* the reading handed to the operation
    failure_probability, \* predict_proba(...)[0][1] of the fitted classifier, percent
    anomaly_score,     \* decision_function(...)[0] of the fitted detector, hundredths
    prediction_result, \* orchestrate: prediction_result (<<>> is None)
    diagnosis_result,  \* orchestrate: diagnosis_result  (<<>> is None)
    scheduling_result, \* orchestrate: scheduling_result (<<>> is None)
    customer_result,   \* orchestrate: customer_result   (<<>> is None)
    analysis,          \* result of analyze_telemetry_anomalies (<<>> before the call)
    stages,            \* workflow_results['stages'], the agents in order
    workflow_results,  \* what orchestrate returned (<<>> before it returns)
    alert_idx,         \* position of the create_alert loop in alerts_to_create
    calls,             \* the calls orchestrate has made in this pass, in order
    marks,             \* sizes of the tables when the pass started
    execution_log,     \* BaseAgent.execution_log, agent name -> entries
    agent_logs,        \* table agent_logs
    vehicle,           \* row of table vehicles of vehicle_info['id']
    alerts,            \* table alerts
    bookings,          \* table bookings
    now,               \* datetime.now(), in ticks of the wall clock
    reports,           \* the reports generate_prediction_report has returned, in order
    garages,           \* table garages: id -> capacity, current_load
    service_centers,   \* table service_centers: id -> capacity, current_load
    load_call          \* the last load update: its arguments, the table before it
                       \* and what it returned (<<>> before the first)

vars == <<pc, passes, telemetry, failure_probability, anomaly_score,
          prediction_result, diagnosis_result, scheduling_result,
          customer_result, analysis, stages, workflow_results, alert_idx,
          calls, marks, execution_log, agent_logs, vehicle, alerts, bookings,
          now, reports, garages, service_centers, load_call>>

----------------------------------------------------------------------------
(* Arithmetic helpers                                                      *)

Max(a, b) == IF a >= b THEN a ELSE b
Min(a, b) == IF a <= b THEN a ELSE b
Abs(a) == IF a < 0 THEN -a ELSE a

\* round(): the integer nearest num/den (num >= 0, den > 0), ties to even.
RoundHalfEven(num, den) ==
    LET q == num \div den
        r == num % den
    IN  IF 2 * r < den THEN q
        ELSE IF 2 * r > den THEN q + 1
        ELSE IF q % 2 = 0 THEN q ELSE q + 1

\* num/den lies halfway between two neighbouring integers.
RoundingTie(num, den) == 2 * (num % den) = den

\* F applied to the value of e: e is evaluated once, however often F uses it.
Bind(e, F(_)) == CHOOSE r \in {F(v) : v \in {e}} : TRUE

RECURSIVE SumTo(_, _)
SumTo(s, k) == IF k = 0 THEN 0 ELSE s[k] + SumTo(s, k - 1)

\* sum(s)
SumSeq(s) == Bind(s, LAMBDA v : SumTo(v, Len(v)))

\* [f(x) for x in s]
MapSeq(s, F(_)) == Bind(s, LAMBDA v : [k \in 1..Len(v) |-> F(v[k])] \o <<>>)

IsPrefix(s, t) == Len(s) <= Len(t) /\ SubSeq(t, 1, Len(s)) = s

----------------------------------------------------------------------------
(* predictive_engine.py                                                    *)

\* Iteration order of COMPONENT_FAILURE_PATTERNS (a dict keeps insertion order).
ComponentOrder ==
    <<"engine", "battery", "brakes", "cooling_system", "tires", "transmission">>

\* failure_threshold in hundredths, mtbf_days in days.
COMPONENT_FAILURE_PATTERNS ==
    [engine |->
        [indicators |-> <<"engine_temp", "oil_pressure", "vibration_level", "rpm">>,
         failure_threshold |-> 70, mtbf_days |-> 365],
     battery |->
        [indicators |-> <<"battery_voltage">>,
         failure_threshold |-> 60, mtbf_days |-> 730],
     brakes |->
        [indicators |-> <<"brake_wear", "vibration_level">>,
         failure_threshold |-> 65, mtbf_days |-> 180],
     cooling_system |->
        [indicators |-> <<"engine_temp", "coolant_temp">>,
         failure_threshold |-> 70, mtbf_days |-> 545],
     tires |->
        [indicators |-> <<"tire_pressure_fl", "tire_pressure_fr",
                          "tire_pressure_rl", "tire_pressure_rr">>,
         failure_threshold |-> 50, mtbf_days |-> 365],
     transmission |->
        [indicators |-> <<"vibration_level", "rpm", "speed">>,
         failure_threshold |-> 75, mtbf_days |-> 730]]

\* normal_ranges of _calculate_indicator_health: (min, max) in hundredths.
normal_ranges ==
    [engine_temp |-> <<8500, 10500>>,
     oil_pressure |-> <<2500, 6500>>,
     battery_voltage |-> <<1240, 1470>>,
     rpm |-> <<80000, 650000>>,
     speed |-> <<0, 12000>>,
     vibration_level |-> <<10, 200>>,
     brake_wear |-> <<0, 3000>>,
     coolant_temp |-> <<8000, 10000>>,
     tire_pressure_fl |-> <<3000, 3500>>,
     tire_pressure_fr |-> <<3000, 3500>>,
     tire_pressure_rl |-> <<3000, 3500>>,
     tire_pressure_rr |-> <<3000, 3500>>]

Indicators == DOMAIN normal_ranges

\* telemetry.get(key): <<v>> when the reading has the key, <<>> (None) otherwise.
\* A reading maps each key to <<v>>, or to <<>> when it does not have the key.
Get(t, key) == IF key \in DOMAIN t THEN t[key] ELSE <<>>

\* telemetry.get(key, default)
GetOr(t, key, default) == IF Get(t, key) = <<>> THEN default ELSE Get(t, key)[1]

\* The distance beyond the bound divided by half of the half range.
DeviationNumMutant(min_val, max_val, value) ==
    LET range_size == max_val - min_val
    IN  IF value < min_val THEN 4 * (min_val - value) + range_size
        ELSE IF value > max_val THEN 4 * (value - max_val) + range_size
        ELSE Abs(2 * value - (min_val + max_val))

\* deviation as the fraction devNum / range_size:
\*   abs(value - mid_val) / (range_size / 2), replaced outside the band by
\*   (min_val - value) / (range_size * 0.5) + 1 or (value - max_val) / (...) + 1.
DeviationNum(min_val, max_val, value) ==
    LET range_size == max_val - min_val
    IN  IF value < min_val THEN 2 * (min_val - value) + range_size
        ELSE IF value > max_val THEN 2 * (value - max_val) + range_size
        ELSE Abs(2 * value - (min_val + max_val))

\* max(0, ...) of the score, as the numerator over range_size.
ScoreFloorMutant(x) == x
ScoreFloor(x) == Max(0, x)

\* The values whose score is 70 in exact arithmetic and just under 70 as the
\* code computes it in doubles. Of the values the readings take, on a band
\* bound or off it, this is the only one: battery_voltage 12.4 has
\* range_size 14.7 - 12.4 = 2.299999999999999, deviation
\* abs(12.4 - 13.55) / (range_size / 2) = 1.0000000000000007 and score
\* 100 - deviation * 30 = 69.99999999999997.
ScoreShortInDoubles(indicator, value) ==
    indicator = "battery_voltage" /\ value = 1240

\* _calculate_indicator_health: score in tenths, deviation in hundredths.
\* The status is decided on the unrounded score.
calculate_indicator_health(indicator, value) ==
    IF indicator \notin DOMAIN normal_ranges
    THEN [score |-> 850, status |-> "unknown", deviation |-> 0]
    ELSE
      LET min_val == normal_ranges[indicator][1]
          max_val == normal_ranges[indicator][2]
          range_size == max_val - min_val
          devNum == DeviationNum(min_val, max_val, value)
          \* score * range_size
          scoreNum == ScoreFloor(100 * range_size - 30 * devNum)
      IN  [score |-> IF scoreNum >= 0
                     THEN RoundHalfEven(10 * scoreNum, range_size)
                     ELSE -RoundHalfEven(-10 * scoreNum, range_size),
           status |-> IF scoreNum < 50 * range_size THEN "critical"
                      ELSE IF \/ scoreNum < 70 * range_size
                              \/ ScoreShortInDoubles(indicator, value)
                           THEN "warning"
                      ELSE "normal",
           deviation |-> RoundHalfEven(100 * devNum, range_size)]

\* The products mtbf * (1 - failure_risk) that are a whole number of days in
\* exact arithmetic and just under it in doubles, so that int() gives one day
\* less. Of the averages the readings give, this is the only one: at
\* avg_health 70.0, failure_risk is 0.30000000000000004 and
\* 730 * (1 - failure_risk) is 510.99999999999994.
DaysShortInDoubles(mtbf, sum, n) ==
    mtbf = 730 /\ sum = 700 * n

\* The factor 0.3 applied below the threshold instead of from it on.
DaysToFailureMutant(mtbf, threshold, sum, n) ==
    IF (1000 * n - sum) * 100 < threshold * 1000 * n
    THEN (3 * mtbf * sum) \div (10000 * n)
    ELSE (mtbf * sum) \div (1000 * n)

\* days_to_failure = int(mtbf * (1 - failure_risk) * 0.3) or int(mtbf * (1 - failure_risk)),
\* with 1 - failure_risk = avg_health / 100 = sum / (1000 * n)  (sum in tenths).
DaysToFailure(mtbf, threshold, sum, n) ==
    IF (1000 * n - sum) * 100 >= threshold * 1000 * n
    THEN (3 * mtbf * sum) \div (10000 * n)
    ELSE IF DaysShortInDoubles(mtbf, sum, n)
         THEN (mtbf * sum) \div (1000 * n) - 1
         ELSE (mtbf * sum) \div (1000 * n)

\* The urgency without its middle tier.
MaintenanceUrgencyMutant(days_to_failure) ==
    IF days_to_failure < 7 THEN "immediate" ELSE "scheduled"

\* 'immediate' if days_to_failure < 7 else 'soon' if days_to_failure < 30
\* else 'scheduled'
MaintenanceUrgency(days_to_failure) ==
    IF days_to_failure < 7 THEN "immediate"
    ELSE IF days_to_failure < 30 THEN "soon"
    ELSE "scheduled"

\* The entry analyze_component_health stores for a component, from
\* scored: the indicators present in the reading, each with its value and
\* its indicator health; sum: sum(health_scores), in tenths.
EntryOf(config, scored, sum, days_to_failure) ==
    LET n == Len(scored)
    IN  [health_score |-> RoundHalfEven(sum, n),
         failure_risk |-> RoundHalfEven(1000 * n - sum, n),
         status |-> IF sum < 500 * n THEN "critical"
                    ELSE IF sum < 700 * n THEN "warning"
                    ELSE "healthy",
         days_to_potential_failure |-> days_to_failure,
         \* predicted_failure_date, as days after now
         predicted_failure_date |-> Max(1, days_to_failure),
         issues |-> MapSeq(SelectSeq(scored, LAMBDA x : x.health.status # "normal"),
                      LAMBDA x : [indicator |-> x.indicator, value |-> x.value,
                                  status |-> x.health.status,
                                  deviation |-> x.health.deviation]),
         maintenance_urgency |-> MaintenanceUrgency(days_to_failure)]

\* The entry analyze_component_health builds for one component whose
\* health_scores list is non-empty.
ComponentEntry(t, component) ==
    LET config == COMPONENT_FAILURE_PATTERNS[component]
        present == SelectSeq(config.indicators, LAMBDA i : Get(t, i) # <<>>)
    IN  Bind(MapSeq(present, LAMBDA i :
                [indicator |-> i, value |-> Get(t, i)[1],
                 health |-> calculate_indicator_health(i, Get(t, i)[1])]),
          LAMBDA scored :
            Bind(SumSeq(MapSeq(scored, LAMBDA x : x.health.score)),
              LAMBDA sum :
                Bind(DaysToFailure(config.mtbf_days, config.failure_threshold,
                                   sum, Len(scored)),
                  LAMBDA days_to_failure :
                    EntryOf(config, scored, sum, days_to_failure))))

\* Only the components with every indicator present.
ScoredComponentsMutant(t) ==
    SelectSeq(ComponentOrder, LAMBDA c :
        \A k \in 1..Len(COMPONENT_FAILURE_PATTERNS[c].indicators) :
            Get(t, COMPONENT_FAILURE_PATTERNS[c].indicators[k]) # <<>>)

\* The keys of the component_health dict, in insertion order: the components
\* with at least one indicator present in the reading.
ScoredComponents(t) ==
    SelectSeq(ComponentOrder, LAMBDA c :
        \E k \in 1..Len(COMPONENT_FAILURE_PATTERNS[c].indicators) :
            Get(t, COMPONENT_FAILURE_PATTERNS[c].indicators[k]) # <<>>)

\* analyze_component_health: component -> entry.
analyze_component_health(t) ==
    Bind(ScoredComponents(t), LAMBDA keys :
        [c \in {keys[k] : k \in 1..Len(keys)} |-> ComponentEntry(t, c)])

\* exp(2 * anomaly_score) in thousandths, for the decision-function scores
\* (hundredths) the model draws: exp(-1.2), exp(-1), exp(-0.5), 1, exp(0.5), e, exp(1.2).
ExpTwice ==
    (-60 :> 301) @@ (-50 :> 368) @@ (-25 :> 607) @@ (0 :> 1000) @@
    (25 :> 1649) @@ (50 :> 2718) @@ (60 :> 3320)

\* detect_anomalies, from the decision-function score (hundredths).
\* predict() is -1 exactly where decision_function() is negative.
\* anomaly_probability and confidence in thousandths.
detect_anomalies(score) ==
    [is_anomaly |-> score < 0,
     anomaly_score |-> score,
     anomaly_probability |-> RoundHalfEven(1000 * 1000, 1000 + ExpTwice[score]),
     confidence |-> IF Abs(score) < 50 THEN (Abs(score) * 1000) \div 50 ELSE 1000]

\* risk_level of predict_failure, from the positive-class probability (percent).
RiskLevel(probability) ==
    IF probability >= 70 THEN "critical"
    ELSE IF probability >= 40 THEN "high"
    ELSE IF probability >= 20 THEN "medium"
    ELSE "low"

\* predict_failure: the classifier is fitted on both labels, so predict_proba
\* has two columns; confidence is the larger of the two.
predict_failure(probability) ==
    [failure_probability |-> probability,
     risk_level |-> RiskLevel(probability),
     confidence |-> Max(probability, 100 - probability)]

\* Keys of a component_health dict in insertion order.
Keys(component_health) ==
    SelectSeq(ComponentOrder, LAMBDA c : c \in DOMAIN component_health)

\* The list left in the order of the loop over the components.
SortRecommendationsMutant(recs) == recs

\* recommendations.sort(key=lambda x: 0 if x['priority'] == 'high' else 1):
\* a stable sort on a two-valued key.
SortRecommendations(recs) ==
    Bind(recs, LAMBDA v :
        SelectSeq(v, LAMBDA x : x.priority = "high")
            \o SelectSeq(v, LAMBDA x : x.priority # "high"))

\* The flag with the two conditions joined by 'and'.
RequiresImmediateAttentionMutant(critical_components, risk_level) ==
    Len(critical_components) > 0 /\ risk_level = "critical"

\* requires_immediate_attention of the report.
RequiresImmediateAttention(critical_components, risk_level) ==
    Len(critical_components) > 0 \/ risk_level = "critical"

\* The report generate_prediction_report returns, from the results of the
\* three calls it composes.  Scores in tenths.
ReportOf(anomaly_result, failure_result, component_health) ==
    LET keys == Keys(component_health)
        critical_components ==
            SelectSeq(keys, LAMBDA c : component_health[c].status = "critical")
        warning_components ==
            SelectSeq(keys, LAMBDA c : component_health[c].status = "warning")
        overall_health ==
            IF Len(keys) > 0
            THEN RoundHalfEven(
                    SumSeq(MapSeq(keys, LAMBDA c : component_health[c].health_score)),
                    Len(keys))
            ELSE 1000
        recommendations ==
            MapSeq(SelectSeq(keys, LAMBDA c :
                        component_health[c].status \in {"critical", "warning"}),
                   LAMBDA c :
                        [priority |-> IF component_health[c].status = "critical"
                                      THEN "high" ELSE "medium",
                         component |-> c,
                         action |-> IF component_health[c].status = "critical"
                                    THEN "Immediate inspection required"
                                    ELSE "Schedule maintenance",
                         deadline |-> component_health[c].predicted_failure_date])
    IN  [anomaly_detection |-> anomaly_result,
         failure_prediction |-> failure_result,
         component_health |-> component_health,
         overall_health_score |-> overall_health,
         critical_components |-> critical_components,
         warning_components |-> warning_components,
         recommendations |-> SortRecommendations(recommendations),
         requires_immediate_attention |->
            RequiresImmediateAttention(critical_components, failure_result.risk_level)]

\* generate_prediction_report(telemetry), given what the two fitted models
\* answer for the reading.
generate_prediction_report(t, probability, score) ==
    Bind(analyze_component_health(t), LAMBDA component_health :
        ReportOf(detect_anomalies(score), predict_failure(probability),
                 component_health))

\* The wall clock: ticks in a day, and the date of a tick.
TicksPerDay == 2
Date(tick) == tick \div TicksPerDay

\* The report with the fields read off the wall clock: 'timestamp' is
\* datetime.now() and predicted_failure_date (the deadline of a
\* recommendation) is the date of now plus the days.
ReportAt(tick, report) ==
    [f \in DOMAIN report \cup {"timestamp"} |->
        CASE f = "timestamp" -> tick
          [] f = "component_health" ->
                [c \in DOMAIN report.component_health |->
                    [report.component_health[c]
                        EXCEPT !.predicted_failure_date = Date(tick) + @]]
          [] f = "recommendations" ->
                [k \in DOMAIN report.recommendations |->
                    [report.recommendations[k] EXCEPT !.deadline = Date(tick) + @]]
          [] OTHER -> report[f]]

----------------------------------------------------------------------------
(* telemetry.py                                                            *)

\* WARNING_THRESHOLDS and CRITICAL_THRESHOLDS of the six checked parameters,
\* (min, max) in hundredths.
WARNING_THRESHOLDS ==
    [engine_temp |-> <<7000, 11000>>,
     oil_pressure |-> <<2000, 7000>>,
     battery_voltage |-> <<1180, 1500>>,
     vibration_level |-> <<0, 350>>,
     brake_wear |-> <<0, 6000>>,
     coolant_temp |-> <<7000, 11500>>]

CRITICAL_THRESHOLDS ==
    [engine_temp |-> <<6000, 12500>>,
     oil_pressure |-> <<1500, 8000>>,
     battery_voltage |-> <<1050, 1600>>,
     vibration_level |-> <<0, 500>>,
     brake_wear |-> <<0, 8000>>,
     coolant_temp |-> <<6000, 13000>>]

\* checks: (param, telemetry.get(param, default)) in order, defaults in hundredths.
Checks(t) ==
    <<[param |-> "engine_temp", value |-> GetOr(t, "engine_temp", 9000)],
      [param |-> "oil_pressure", value |-> GetOr(t, "oil_pressure", 4000)],
      [param |-> "battery_voltage", value |-> GetOr(t, "battery_voltage", 1260)],
      [param |-> "vibration_level", value |-> GetOr(t, "vibration_level", 100)],
      [param |-> "brake_wear", value |-> GetOr(t, "brake_wear", 2000)],
      [param |-> "coolant_temp", value |-> GetOr(t, "coolant_temp", 9000)]>>

\* Two independent tests instead of if / elif: a value outside the critical
\* band is counted for the warning band as well.
CheckAnomalyMutant(check) ==
    LET warning == WARNING_THRESHOLDS[check.param]
        critical == CRITICAL_THRESHOLDS[check.param]
    IN  (IF check.value < critical[1] \/ check.value > critical[2]
         THEN <<[parameter |-> check.param, value |-> check.value,
                 severity |-> "critical", increment |-> 30]>>
         ELSE <<>>)
        \o (IF check.value < warning[1] \/ check.value > warning[2]
            THEN <<[parameter |-> check.param, value |-> check.value,
                    severity |-> "warning", increment |-> 15]>>
            ELSE <<>>)

\* The anomaly one scalar check emits: <<>> or one entry.
CheckAnomaly(check) ==
    LET warning == WARNING_THRESHOLDS[check.param]
        critical == CRITICAL_THRESHOLDS[check.param]
    IN  IF check.value < critical[1] \/ check.value > critical[2]
        THEN <<[parameter |-> check.param, value |-> check.value,
                severity |-> "critical", increment |-> 30]>>
        ELSE IF check.value < warning[1] \/ check.value > warning[2]
        THEN <<[parameter |-> check.param, value |-> check.value,
                severity |-> "warning", increment |-> 15]>>
        ELSE <<>>

TirePositions ==
    <<"tire_pressure_fl", "tire_pressure_fr", "tire_pressure_rl", "tire_pressure_rr">>

\* The anomaly one tire emits: <<>> or one entry.
TireAnomaly(t, position) ==
    LET pressure == GetOr(t, position, 3200)
    IN  IF pressure < 2800 \/ pressure > 3800
        THEN LET severity == IF pressure < 2500 \/ pressure > 4200
                             THEN "critical" ELSE "warning"
             IN  <<[parameter |-> position, value |-> pressure,
                    severity |-> severity,
                    increment |-> IF severity = "critical" THEN 20 ELSE 10]>>
        ELSE <<>>

\* code.startswith('P07') or code.startswith('U') for the codes the model draws.
CriticalCodes == {"P0700", "U0100"}

CodeAnomaly(code) ==
    [parameter |-> "Error Code", value |-> code,
     severity |-> IF code \in CriticalCodes THEN "critical" ELSE "warning",
     increment |-> 25]

RECURSIVE Flatten(_)
Flatten(ss) == IF ss = <<>> THEN <<>> ELSE Head(ss) \o Flatten(Tail(ss))

\* The thresholds taken strictly.
OverallStatusMutant(severity_score) ==
    IF severity_score > 50 THEN "critical"
    ELSE IF severity_score > 20 THEN "warning"
    ELSE "healthy"

\* overall_status: 'critical' from 50, 'warning' from 20, else 'healthy'.
OverallStatus(severity_score) ==
    IF severity_score >= 50 THEN "critical"
    ELSE IF severity_score >= 20 THEN "warning"
    ELSE "healthy"

\* analyze_telemetry_anomalies.  Each anomaly carries the amount it added to
\* severity_score; health_score here is in points, as in the code.
analyze_telemetry_anomalies(t, error_codes) ==
    LET anomalies ==
            Flatten(MapSeq(Checks(t), CheckAnomaly))
            \o Flatten(MapSeq(TirePositions, LAMBDA p : TireAnomaly(t, p)))
            \o MapSeq(error_codes, CodeAnomaly)
        severity_score == SumSeq(MapSeq(anomalies, LAMBDA a : a.increment))
    IN  [anomalies |-> anomalies,
         severity_score |-> severity_score,
         overall_status |-> OverallStatus(severity_score),
         health_score |-> Max(0, 100 - severity_score),
         anomaly_count |-> Len(anomalies)]

----------------------------------------------------------------------------
(* agents.py: DiagnosisAgent                                               *)

\* DIAGNOSIS_KNOWLEDGE_BASE: component -> issue kind -> entry;
\* severity_multiplier in tenths.  transmission has no entry.
DIAGNOSIS_KNOWLEDGE_BASE ==
    [engine |->
        [high_temp |->
            [possible_causes |-> <<"Coolant leak", "Thermostat failure",
                                   "Radiator blockage", "Water pump failure">>,
             recommended_actions |-> <<"Check coolant level", "Inspect thermostat",
                                       "Flush radiator", "Test water pump">>,
             severity_multiplier |-> 15],
         low_oil_pressure |->
            [possible_causes |-> <<"Oil leak", "Worn oil pump",
                                   "Clogged oil filter", "Wrong oil viscosity">>,
             recommended_actions |-> <<"Check oil level", "Replace oil filter",
                                       "Inspect for leaks", "Oil change">>,
             severity_multiplier |-> 18],
         high_vibration |->
            [possible_causes |-> <<"Engine mount wear", "Misfiring cylinder",
                                   "Unbalanced components", "Worn bearings">>,
             recommended_actions |-> <<"Check engine mounts", "Inspect spark plugs",
                                       "Balance rotating parts", "Check bearings">>,
             severity_multiplier |-> 13]],
     battery |->
        [low_voltage |->
            [possible_causes |-> <<"Aging battery", "Alternator failure",
                                   "Parasitic drain", "Loose connections">>,
             recommended_actions |-> <<"Test battery capacity", "Check alternator output",
                                       "Inspect electrical system", "Clean terminals">>,
             severity_multiplier |-> 12]],
     brakes |->
        [high_wear |->
            [possible_causes |-> <<"Normal wear", "Aggressive driving",
                                   "Stuck caliper", "Warped rotors">>,
             recommended_actions |-> <<"Replace brake pads", "Inspect calipers",
                                       "Check rotors", "Brake fluid flush">>,
             severity_multiplier |-> 16]],
     cooling_system |->
        [high_coolant_temp |->
            [possible_causes |-> <<"Low coolant", "Thermostat stuck",
                                   "Fan failure", "Head gasket leak">>,
             recommended_actions |-> <<"Top up coolant", "Replace thermostat",
                                       "Test cooling fan", "Pressure test system">>,
             severity_multiplier |-> 17]],
     tires |->
        [low_pressure |->
            [possible_causes |-> <<"Slow puncture", "Valve stem leak",
                                   "Temperature change", "Rim damage">>,
             recommended_actions |-> <<"Inspect tire", "Check valve stem",
                                       "Inflate to spec", "Check rim seal">>,
             severity_multiplier |-> 11]]]

\* {}: a dict with no key.
EmptyDict == [k \in {} |-> 0]

\* d.get(key, default)
DictGet(d, key, default) == IF key \in DOMAIN d THEN d[key] ELSE default

\* word in indicator.lower(), for the indicator names of the engine.
NameContains(indicator, word) ==
    CASE word = "temp" -> indicator \in {"engine_temp", "coolant_temp"}
      [] word = "pressure" -> indicator \in {"oil_pressure", "tire_pressure_fl",
                                "tire_pressure_fr", "tire_pressure_rl", "tire_pressure_rr"}
      [] word = "voltage" -> indicator = "battery_voltage"
      [] word = "vibration" -> indicator = "vibration_level"
      [] word = "wear" -> indicator = "brake_wear"
      [] OTHER -> FALSE

\* 'high' in issue.get('status', ''): of the status strings an issue can carry
\* (normal, warning, critical, unknown) none contains 'high'.
StatusContainsHigh(status) == status \in {"high"}

\* The kb_entry one issue selects (value in hundredths).
KbEntry(knowledge, issue) ==
    IF NameContains(issue.indicator, "temp") /\ StatusContainsHigh(issue.status)
    THEN DictGet(knowledge, "high_temp", DictGet(knowledge, "high_coolant_temp", EmptyDict))
    ELSE IF NameContains(issue.indicator, "pressure") /\ issue.value < 3000
    THEN DictGet(knowledge, "low_oil_pressure", DictGet(knowledge, "low_pressure", EmptyDict))
    ELSE IF NameContains(issue.indicator, "voltage")
    THEN DictGet(knowledge, "low_voltage", EmptyDict)
    ELSE IF NameContains(issue.indicator, "vibration")
    THEN DictGet(knowledge, "high_vibration", EmptyDict)
    ELSE IF NameContains(issue.indicator, "wear")
    THEN DictGet(knowledge, "high_wear", EmptyDict)
    ELSE EmptyDict

Range(s) == {s[k] : k \in 1..Len(s)}

\* set(possible_causes) after the loop over the issues.
CausePool(component, health) ==
    LET knowledge == DictGet(DIAGNOSIS_KNOWLEDGE_BASE, component, EmptyDict)
    IN  UNION {Range(DictGet(KbEntry(knowledge, health.issues[k]),
                             "possible_causes", <<"Unknown cause">>))
               : k \in 1..Len(health.issues)}

\* set(recommended_actions) after the loop over the issues.
ActionPool(component, health) ==
    LET knowledge == DictGet(DIAGNOSIS_KNOWLEDGE_BASE, component, EmptyDict)
    IN  UNION {Range(DictGet(KbEntry(knowledge, health.issues[k]),
                             "recommended_actions", <<"General inspection">>))
               : k \in 1..Len(health.issues)}

RECURSIVE MaxOf(_)
MaxOf(s) == IF s = <<>> THEN 10 ELSE Max(Head(s), MaxOf(Tail(s)))

\* The multiplier left at its default.
SeverityMultiplierMutant(component, health) == 10

\* severity_multiplier after the loop (tenths): the maximum of 1.0 and the
\* multipliers of the selected entries.
SeverityMultiplier(component, health) ==
    LET knowledge == DictGet(DIAGNOSIS_KNOWLEDGE_BASE, component, EmptyDict)
    IN  MaxOf(MapSeq(health.issues, LAMBDA issue :
                DictGet(KbEntry(knowledge, issue), "severity_multiplier", 10)))

\* min(100, priority_score), on the value in thousandths of a point.
PriorityCapMutant(x) == x
PriorityCap(x) == Min(100000, x)

\* The score taken from the health itself instead of from what it lacks.
PriorityScoreMutant(health_score, severity_multiplier) ==
    RoundHalfEven(PriorityCap(health_score * severity_multiplier * 10), 100)

\* round(min(100, (100 - health_score) * severity_multiplier), 1), in tenths.
PriorityScore(health_score, severity_multiplier) ==
    RoundHalfEven(PriorityCap((1000 - health_score) * severity_multiplier * 10), 100)

repair_time_map ==
    [engine |-> 120, battery |-> 30, brakes |-> 90,
     cooling_system |-> 60, tires |-> 45, transmission |-> 180]

\* list(set(...))[:4] puts the pool in the order of the set's hash table,
\* which the code does not fix: any element of the pool can come first.
\* The set of values possible_causes[0] can take.
FirstCauses(component, health) == CausePool(component, health)

\* _diagnose_component, for one outcome of the set order: first is
\* possible_causes[0] when the pool is not empty.
diagnose_component(component, health, first) ==
    Bind(CausePool(component, health), LAMBDA pool :
        [component |-> component,
         health_score |-> health.health_score,
         failure_risk |-> health.failure_risk,
         primary_cause |-> IF pool # {} THEN first ELSE "Requires inspection",
         cause_pool |-> pool,
         possible_causes_len |-> Min(4, Cardinality(pool)),
         action_pool |-> ActionPool(component, health),
         priority_score |->
            PriorityScore(health.health_score, SeverityMultiplier(component, health)),
         estimated_repair_minutes |-> DictGet(repair_time_map, component, 60)])

\* sorted(diagnoses, key=priority_score, reverse=True): stable, descending.
RECURSIVE InsertByPriority(_, _)
InsertByPriority(sorted, d) ==
    IF sorted = <<>> THEN <<d>>
    ELSE IF Head(sorted).priority_score >= d.priority_score
         THEN <<Head(sorted)>> \o InsertByPriority(Tail(sorted), d)
         ELSE <<d>> \o sorted

\* The diagnoses left in the order of the loop over the components.
SortByPriorityMutant(sorted, diagnoses, k) == diagnoses

\* diagnoses[k..] inserted one by one into sorted.
RECURSIVE SortByPriority(_, _, _)
SortByPriority(sorted, diagnoses, k) ==
    IF k > Len(diagnoses) THEN sorted
    ELSE Bind(InsertByPriority(sorted, diagnoses[k]),
              LAMBDA v : SortByPriority(v, diagnoses, k + 1))

\* The components DiagnosisAgent.process diagnoses, in iteration order.
Diagnosed(report) ==
    SelectSeq(Keys(report.component_health), LAMBDA c :
        report.component_health[c].status \in {"critical", "warning"})

\* The outcomes the set order can have for a report: for each diagnosed
\* component, which cause comes first.
FirstChoices(report) ==
    LET comps == Range(Diagnosed(report))
    IN  {f \in [comps -> UNION {FirstCauses(c, report.component_health[c]) : c \in comps}
                         \cup {"Requires inspection"}] :
            \A c \in comps :
                LET pool == FirstCauses(c, report.component_health[c])
                IN  IF pool = {} THEN f[c] = "Requires inspection" ELSE f[c] \in pool}

\* The result of DiagnosisAgent.process.
DiagnosisProcessResult(report, firsts) ==
    Bind(MapSeq(Diagnosed(report), LAMBDA c :
            diagnose_component(c, report.component_health[c], firsts[c])),
      LAMBDA diagnoses :
        [diagnoses |-> SortByPriority(<<>>, diagnoses, 1),
         total_issues |-> Len(diagnoses),
         requires_immediate_action |->
            \E k \in 1..Len(diagnoses) : diagnoses[k].priority_score > 800,
         estimated_repair_time |->
            SumSeq(MapSeq(diagnoses, LAMBDA d : d.estimated_repair_minutes))])

\* Some round() of analyze_component_health, generate_prediction_report or
\* _diagnose_component on the reading t is at a tie: an indicator's score or
\* deviation, a component's health_score or failure_risk, the overall
\* health score, a diagnosed component's priority_score.
OnRoundingTie(t) ==
    \/ \E i \in {j \in Indicators : Get(t, j) # <<>>} :
          LET range_size == normal_ranges[i][2] - normal_ranges[i][1]
              devNum == DeviationNum(normal_ranges[i][1], normal_ranges[i][2], t[i][1])
          IN  \/ RoundingTie(10 * ScoreFloor(100 * range_size - 30 * devNum), range_size)
              \/ RoundingTie(100 * devNum, range_size)
    \/ \E component_health \in {analyze_component_health(t)} :
          \/ \E c \in DOMAIN component_health :
                LET present == SelectSeq(COMPONENT_FAILURE_PATTERNS[c].indicators,
                                         LAMBDA i : Get(t, i) # <<>>)
                    sum == SumSeq(MapSeq(present, LAMBDA i :
                              calculate_indicator_health(i, t[i][1]).score))
                IN  \/ RoundingTie(sum, Len(present))
                    \/ /\ component_health[c].status \in {"critical", "warning"}
                       /\ RoundingTie(
                              PriorityCap((1000 - component_health[c].health_score)
                                  * SeverityMultiplier(c, component_health[c]) * 10), 100)
          \/ /\ Len(Keys(component_health)) > 0
             /\ RoundingTie(
                   SumSeq(MapSeq(Keys(component_health),
                                 LAMBDA c : component_health[c].health_score)),
                   Len(Keys(component_health)))

----------------------------------------------------------------------------
(* agents.py: the stages MasterAgent.orchestrate sequences                 *)

\* The entry log_execution builds (status defaults to 'success').
LogEntry(agent, action) == [agent |-> agent, action |-> action, status |-> "success"]

\* alerts_generated of PredictionAgent.process: one per 'high' recommendation.
AlertsToCreateMutant(report) ==
    MapSeq(report.recommendations,
           LAMBDA rec : [component |-> rec.component, severity |-> "critical",
                         action |-> rec.action])

AlertsToCreate(report) ==
    MapSeq(SelectSeq(report.recommendations, LAMBDA rec : rec.priority = "high"),
           LAMBDA rec : [component |-> rec.component, severity |-> "critical",
                         action |-> rec.action])

\* result of PredictionAgent.process.
PredictionProcessResult(t, probability, score) ==
    Bind(generate_prediction_report(t, probability, score), LAMBDA report :
        [prediction_report |-> report,
         alerts_to_create |-> AlertsToCreate(report),
         requires_diagnosis |-> Len(report.critical_components) > 0,
         requires_scheduling |-> report.requires_immediate_attention])

\* _determine_service_type
determine_service_type(diagnoses) ==
    LET components == {diagnoses[k].component : k \in 1..Len(diagnoses)}
    IN  IF diagnoses = <<>> THEN "General Inspection"
        ELSE IF "engine" \in components \/ "transmission" \in components
        THEN "Major Service"
        ELSE IF "brakes" \in components \/ "cooling_system" \in components
        THEN "Safety Service"
        ELSE IF "battery" \in components THEN "Electrical Service"
        ELSE IF "tires" \in components THEN "Tire Service"
        ELSE "Diagnostic Service"

\* A scheduling result that reports no booking.
SchedulingProcessResultMutant(data) ==
    [priority |-> IF data.requires_immediate_action THEN "urgent" ELSE "normal",
     service_type |-> determine_service_type(data.diagnoses),
     estimated_duration |-> data.estimated_repair_time,
     booking_created |-> FALSE]

\* result of SchedulingAgent.process, without the service center and the
\* slot it picks (neither is read by a gate of orchestrate).
SchedulingProcessResult(data) ==
    [priority |-> IF data.requires_immediate_action THEN "urgent" ELSE "normal",
     service_type |-> determine_service_type(data.diagnoses),
     estimated_duration |-> data.estimated_repair_time,
     booking_created |-> TRUE]

\* result of CustomerAgent.process for action_type 'send_alert'.
CustomerProcessResult(data) ==
    [status |-> "sent", severity |-> data.severity,
     issue_description |-> data.issue_description]

\* The bucket orchestrate gives the overall health score (tenths).
VehicleStatusMutant(health_score) ==
    IF health_score < 500 THEN "critical"
    ELSE IF health_score <= 700 THEN "warning"
    ELSE "healthy"

VehicleStatus(health_score) ==
    IF health_score < 500 THEN "critical"
    ELSE IF health_score < 700 THEN "warning"
    ELSE "healthy"

\* if prediction_result.get('requires_diagnosis'):
DiagnosisGateMutant == prediction_result.requires_scheduling
DiagnosisGate == prediction_result.requires_diagnosis

\* if prediction_result.get('requires_scheduling') and diagnosis_result:
SchedulingGateMutant == prediction_result.requires_scheduling
SchedulingGate == prediction_result.requires_scheduling /\ diagnosis_result # <<>>

\* if scheduling_result and scheduling_result.get('booking_created'):
CustomerGateMutant == prediction_result.requires_scheduling
CustomerGate == scheduling_result # <<>> /\ scheduling_result.booking_created

\* The agent behind each stage of the pipeline and the action it logs.
StageAgent ==
    [prediction |-> "prediction_agent", diagnosis |-> "diagnosis_agent",
     scheduling |-> "scheduling_agent", customer |-> "customer_agent"]

StageAction ==
    [prediction |-> "predict_maintenance", diagnosis |-> "diagnose_issues",
     scheduling |-> "schedule_service", customer |-> "send_alert"]

Agents == {"master_agent", "prediction_agent", "diagnosis_agent",
           "scheduling_agent", "customer_agent"}

\* Whether orchestrate, standing before a stage, invokes it.
StageInvoked(stage) ==
    CASE stage = "prediction" -> TRUE
      [] stage = "diagnosis" -> DiagnosisGate
      [] stage = "scheduling" -> SchedulingGate
      [] stage = "customer" -> CustomerGate

----------------------------------------------------------------------------
(* Inputs                                                                  *)

\* Number of orchestrate passes the caller makes on one MasterAgent.
MaxPasses == 2

\* The second call of a pair comes at most this many ticks after the first.
MaxElapsed == 2

\* Every indicator at the midpoint of its normal band, no fault code.
Nominal ==
    [i \in Indicators |-> <<(normal_ranges[i][1] + normal_ranges[i][2]) \div 2>>]
        @@ [error_codes |-> << <<>> >>]

With(t, key, value) == [t EXCEPT ![key] = <<value>>]

Degraded(rpm) ==
    With(With(With(With(With(Nominal, "engine_temp", 15000), "coolant_temp", 13000),
        "vibration_level", 600), "rpm", rpm), "speed", 30000)

\* What orchestrate is run on: a reading, and what the fitted classifier
\* (failure probability, percent) and detector (decision-function score,
\* hundredths) answer for it.
OrchestrateInputs ==
    {<<Nominal, 10, 25>>,
     <<Nominal, 70, -25>>,
     <<With(With(With(Nominal, "battery_voltage", 900), "engine_temp", 15000),
            "oil_pressure", 5833), 10, 25>>,
     <<With(Nominal, "engine_temp", 15000), 70, 50>>,
     <<Degraded(900000), 10, -60>>,
     <<Degraded(2000000), 70, 25>>}

\* The readings the engine, the analyzer and the diagnosis mapper are applied
\* to: every combination of these values (hundredths; <<>> is an indicator
\* the reading does not have) that is on no rounding tie, rpm and speed at
\* their midpoints, the rear tires at 32.5.
EngineTempValues == {<<9500>>, <<10500>>, <<15000>>}
OilPressureValues == {<<4500>>, <<1000>>}
BatteryVoltageValues == {<<1355>>, <<900>>, <<>>}
VibrationValues == {<<105>>, <<250>>, <<600>>}
BrakeWearValues == {<<1500>>, <<7500>>}
CoolantTempValues == {<<9000>>, <<10000>>, <<13000>>}
TirePressureValues == {<<3250>>, <<2000>>}
ErrorCodeValues == {<<>>, <<"P0700", "P0300">>}

Reading(et, op, bv, vib, bw, ct, fl, fr, codes) ==
    [Nominal EXCEPT !["engine_temp"] = et, !["oil_pressure"] = op,
                    !["battery_voltage"] = bv, !["vibration_level"] = vib,
                    !["brake_wear"] = bw, !["coolant_temp"] = ct,
                    !["tire_pressure_fl"] = fl, !["tire_pressure_fr"] = fr,
                    !["error_codes"] = <<codes>>]

Without(t, keys) == [k \in DOMAIN t |-> IF k \in keys THEN <<>> ELSE t[k]]

\* Readings that lack indicators: none at all; the engine without its
\* oil_pressure, engine_temp far out of band; the brakes' brake_wear alone;
\* no tire pressure.
SparseReadings ==
    {Without(Nominal, Indicators),
     Without(With(Nominal, "engine_temp", 15000), {"oil_pressure"}),
     Without(With(Nominal, "brake_wear", 7500), Indicators \ {"brake_wear"}),
     Without(Nominal, {"tire_pressure_fl", "tire_pressure_fr",
                       "tire_pressure_rl", "tire_pressure_rr"})}

\* Readings with the battery voltage on a bound of its normal band
\* (12.4, 14.7), everything else at its midpoint.
BandEdgeReadings ==
    {With(Nominal, "battery_voltage", 1240),
     With(Nominal, "battery_voltage", 1470)}

\* health_score values (tenths) handed to the diagnosis mapper directly.
HealthScoreValues == {0, 450, 1000}

\* What the fitted classifier and detector answer for a reading
\* (percent, hundredths).
ModelAnswers == {<<10, -60>>, <<10, 25>>, <<70, -25>>, <<70, 50>>}

----------------------------------------------------------------------------
(* Load of the garages and of the service centers (database.py)            *)

\* The largest capacity of a row, and the largest load_change of a call in
\* either direction; a load is not taken below -MaxLoadChange.
MaxCapacity == 2
MaxLoadChange == 2

\* The capacity and current_load columns of a row.
LoadRow(capacity, current_load) ==
    [capacity |-> capacity, current_load |-> current_load]

\* The rows seed_sample_data inserts into service_centers, by id.
SeededServiceCenters ==
    <<LoadRow(15, 3), LoadRow(20, 5), LoadRow(10, 2), LoadRow(25, 8),
      LoadRow(30, 10)>>

\* The rows seed_additional_data inserts into garages, by id.
SeededGarages ==
    <<LoadRow(10, 3), LoadRow(8, 2), LoadRow(12, 4), LoadRow(15, 6),
      LoadRow(6, 1), LoadRow(5, 2)>>

\* Rows whose current_load does not exceed their capacity.
LoadRows ==
    {row \in [capacity : 1..MaxCapacity, current_load : 0..MaxCapacity] :
        row.current_load <= row.capacity}

\* The ids the load updates are called with: the rows' ids and one id no
\* row has.
GarageIds == {1, 2}
ServiceCenterIds == {1}
MissingId == 3

\* The load_change arguments.
LoadChanges == (-MaxLoadChange)..MaxLoadChange

\* The UPDATE without its capacity condition.
update_garage_loadMutant(rows, garage_id, load_change) ==
    LET matched == {id \in DOMAIN rows : id = garage_id}
    IN  [rows |-> [id \in DOMAIN rows |->
                     IF id \in matched
                     THEN [rows[id] EXCEPT !.current_load = @ + load_change]
                     ELSE rows[id]],
         returned |-> Cardinality(matched) > 0]

\* update_garage_load:
\*   UPDATE garages SET current_load = current_load + ?
\*   WHERE id = ? AND current_load + ? <= capacity
\* and return cursor.rowcount > 0. Gives the table after the statement and
\* the value returned.
update_garage_load(rows, garage_id, load_change) ==
    LET matched == {id \in DOMAIN rows :
                       /\ id = garage_id
                       /\ rows[id].current_load + load_change <= rows[id].capacity}
    IN  [rows |-> [id \in DOMAIN rows |->
                     IF id \in matched
                     THEN [rows[id] EXCEPT !.current_load = @ + load_change]
                     ELSE rows[id]],
         returned |-> Cardinality(matched) > 0]

\* update_service_center_load:
\*   UPDATE service_centers SET current_load = current_load + ?
\*   WHERE id = ? AND current_load + ? <= capacity
\* and return cursor.rowcount > 0.
update_service_center_load(rows, service_center_id, load_change) ==
    LET matched == {id \in DOMAIN rows :
                       /\ id = service_center_id
                       /\ rows[id].current_load + load_change <= rows[id].capacity}
    IN  [rows |-> [id \in DOMAIN rows |->
                     IF id \in matched
                     THEN [rows[id] EXCEPT !.current_load = @ + load_change]
                     ELSE rows[id]],
         returned |-> Cardinality(matched) > 0]

\* What load_call keeps of a call.
LoadCall(op, id, load_change, before, returned) ==
    [op |-> op, id |-> id, load_change |-> load_change, before |-> before,
     returned |-> returned]

----------------------------------------------------------------------------
(* State after construction: MasterAgent() built, tables as init_database  *)
(* and seed_sample_data leave them.                                        *)

None == <<>>

Init ==
    /\ pc = "idle"
    /\ passes = 0
    /\ telemetry = EmptyDict
    /\ failure_probability = 0
    /\ anomaly_score = 0
    /\ prediction_result = None
    /\ diagnosis_result = None
    /\ scheduling_result = None
    /\ customer_result = None
    /\ analysis = None
    /\ stages = <<>>
    /\ workflow_results = None
    /\ alert_idx = 1
    /\ calls = <<>>
    /\ marks = [agent_logs |-> 0, alerts |-> 0, bookings |-> 0]
    /\ execution_log = [a \in Agents |-> <<>>]
    /\ agent_logs = <<>>
    /\ vehicle = [health_score |-> 1000, status |-> "healthy"]
    /\ alerts = <<>>
    /\ bookings = <<>>
    /\ now = 0
    /\ reports = <<>>
    /\ garages = SeededGarages
    /\ service_centers = SeededServiceCenters
    /\ load_call = None

tables == <<agent_logs, vehicle, alerts, bookings>>
inputs == <<telemetry, failure_probability, anomaly_score>>
results == <<prediction_result, diagnosis_result, scheduling_result, customer_result>>
clocked == <<now, reports>>
loads == <<garages, service_centers, load_call>>

\* One call orchestrate makes to a stage's process, to a persistence
\* function or to its own log_execution, and whether the call raised.
Call(op, raised) == [op |-> op, raised |-> raised]

\* BaseAgent.log_execution: append to the agent's execution_log, then insert
\* the row into agent_logs.
log_executionMutant(agent, action) ==
    /\ execution_log' = [execution_log EXCEPT ![agent] = Append(@, LogEntry(agent, action))]
    /\ agent_logs' = IF agent = "customer_agent" THEN agent_logs
                     ELSE Append(agent_logs, LogEntry(agent, action))

log_execution(agent, action) ==
    /\ execution_log' = [execution_log EXCEPT ![agent] = Append(@, LogEntry(agent, action))]
    /\ agent_logs' = Append(agent_logs, LogEntry(agent, action))

\* The caller hands orchestrate a reading: orchestrate starts (lines 725-730).
\* The fitted models' answers for the reading are fixed here.
StartOrchestrate ==
    /\ pc \in {"idle", "done", "raised"}
    /\ passes < MaxPasses
    /\ \E input \in OrchestrateInputs :
          /\ telemetry' = input[1]
          /\ failure_probability' = input[2]
          /\ anomaly_score' = input[3]
    /\ passes' = passes + 1
    /\ pc' = "prediction"
    /\ prediction_result' = None
    /\ diagnosis_result' = None
    /\ scheduling_result' = None
    /\ customer_result' = None
    /\ stages' = <<>>
    /\ workflow_results' = None
    /\ alert_idx' = 1
    /\ calls' = <<>>
    /\ marks' = [agent_logs |-> Len(agent_logs), alerts |-> Len(alerts),
                 bookings |-> Len(bookings)]
    /\ UNCHANGED <<clocked, loads, analysis, execution_log, tables>>

\* A stage's process raises before it logs (the engine, the service-center
\* query, a template): nothing is caught, orchestrate ends with the error.
StageRaises ==
    /\ pc \in DOMAIN StageAgent
    /\ StageInvoked(pc)
    /\ calls' = Append(calls, Call(pc, TRUE))
    /\ pc' = "raised"
    /\ UNCHANGED <<clocked, loads, passes, inputs, results, analysis, stages, workflow_results,
                   alert_idx, marks, execution_log, tables>>

\* log_agent_action raises inside a stage's log_execution: the entry is in
\* the agent's execution_log, the row is not in agent_logs.
StageLogRaises ==
    /\ pc \in DOMAIN StageAgent
    /\ StageInvoked(pc)
    /\ calls' = Append(calls, Call(pc, TRUE))
    /\ execution_log' = [execution_log EXCEPT ![StageAgent[pc]] =
                            Append(@, LogEntry(StageAgent[pc], StageAction[pc]))]
    /\ pc' = "raised"
    /\ UNCHANGED <<clocked, loads, passes, inputs, results, analysis, stages, workflow_results,
                   alert_idx, marks, tables>>

\* Lines 732-739.
PredictionStage ==
    /\ pc = "prediction"
    /\ calls' = Append(calls, Call("prediction", FALSE))
    /\ prediction_result' =
          PredictionProcessResult(telemetry, failure_probability, anomaly_score)
    /\ log_execution("prediction_agent", "predict_maintenance")
    /\ stages' = Append(stages, "prediction")
    /\ pc' = "diagnosis"
    /\ UNCHANGED <<clocked, loads, passes, inputs, diagnosis_result, scheduling_result, customer_result,
                   analysis, workflow_results, alert_idx, marks, vehicle, alerts, bookings>>

\* Lines 741-750, gate true.
DiagnosisStage ==
    /\ pc = "diagnosis"
    /\ DiagnosisGate
    /\ calls' = Append(calls, Call("diagnosis", FALSE))
    /\ \E firsts \in FirstChoices(prediction_result.prediction_report) :
          diagnosis_result' =
              DiagnosisProcessResult(prediction_result.prediction_report, firsts)
    /\ log_execution("diagnosis_agent", "diagnose_issues")
    /\ stages' = Append(stages, "diagnosis")
    /\ pc' = "scheduling"
    /\ UNCHANGED <<clocked, loads, passes, inputs, prediction_result, scheduling_result, customer_result,
                   analysis, workflow_results, alert_idx, marks, vehicle, alerts, bookings>>

\* Lines 741-742, gate false: diagnosis_result stays None.
DiagnosisSkipped ==
    /\ pc = "diagnosis"
    /\ ~DiagnosisGate
    /\ pc' = "scheduling"
    /\ UNCHANGED <<clocked, loads, passes, inputs, results, analysis, stages, workflow_results,
                   alert_idx, calls, marks, execution_log, tables>>

\* Lines 752-763, gate true.
SchedulingStage ==
    /\ pc = "scheduling"
    /\ SchedulingGate
    /\ calls' = Append(calls, Call("scheduling", FALSE))
    /\ scheduling_result' = SchedulingProcessResult(
          [diagnoses |-> diagnosis_result.diagnoses,
           requires_immediate_action |-> diagnosis_result.requires_immediate_action,
           estimated_repair_time |-> diagnosis_result.estimated_repair_time])
    /\ log_execution("scheduling_agent", "schedule_service")
    /\ stages' = Append(stages, "scheduling")
    /\ pc' = "customer"
    /\ UNCHANGED <<clocked, loads, passes, inputs, prediction_result, diagnosis_result, customer_result,
                   analysis, workflow_results, alert_idx, marks, vehicle, alerts, bookings>>

\* Lines 752-753, gate false: scheduling_result stays None.
SchedulingSkipped ==
    /\ pc = "scheduling"
    /\ ~SchedulingGate
    /\ pc' = "customer"
    /\ UNCHANGED <<clocked, loads, passes, inputs, results, analysis, stages, workflow_results,
                   alert_idx, calls, marks, execution_log, tables>>

\* Lines 765-785, gate true.
CustomerStage ==
    /\ pc = "customer"
    /\ CustomerGate
    /\ calls' = Append(calls, Call("customer", FALSE))
    /\ customer_result' = CustomerProcessResult(
          [severity |-> IF diagnosis_result.requires_immediate_action
                        THEN "critical" ELSE "warning",
           issue_description |->
                IF diagnosis_result.diagnoses # <<>>
                THEN diagnosis_result.diagnoses[1].primary_cause
                ELSE "Maintenance required"])
    /\ log_execution("customer_agent", "send_alert")
    /\ stages' = Append(stages, "customer")
    /\ pc' = "update_vehicle_health"
    /\ UNCHANGED <<clocked, loads, passes, inputs, prediction_result, diagnosis_result, scheduling_result,
                   analysis, workflow_results, alert_idx, marks, vehicle, alerts, bookings>>

\* Line 765, gate false.
CustomerSkipped ==
    /\ pc = "customer"
    /\ ~CustomerGate
    /\ pc' = "update_vehicle_health"
    /\ UNCHANGED <<clocked, loads, passes, inputs, results, analysis, stages, workflow_results,
                   alert_idx, calls, marks, execution_log, tables>>

\* Lines 787-795: update_vehicle_health(vehicle_info['id'], health_score, status).
UpdateVehicleHealth ==
    /\ pc = "update_vehicle_health"
    /\ calls' = Append(calls, Call("update_vehicle_health", FALSE))
    /\ LET health_score == prediction_result.prediction_report.overall_health_score
       IN  vehicle' = [health_score |-> health_score,
                       status |-> VehicleStatus(health_score)]
    /\ pc' = "create_alert"
    /\ UNCHANGED <<clocked, loads, passes, inputs, results, analysis, stages, workflow_results,
                   alert_idx, marks, execution_log, agent_logs, alerts, bookings>>

\* Lines 797-806: one turn of the loop over alerts_to_create.
CreateAlert ==
    /\ pc = "create_alert"
    /\ alert_idx <= Len(prediction_result.alerts_to_create)
    /\ calls' = Append(calls, Call("create_alert", FALSE))
    /\ LET alert_data == prediction_result.alerts_to_create[alert_idx]
       IN  alerts' = Append(alerts,
              [alert_type |-> "predictive",
               severity |-> alert_data.severity,
               component |-> alert_data.component,
               description |-> alert_data.action,
               failure_probability |->
                  prediction_result.prediction_report.failure_prediction.failure_probability])
    /\ alert_idx' = alert_idx + 1
    /\ UNCHANGED <<clocked, loads, pc, passes, inputs, results, analysis, stages, workflow_results,
                   marks, execution_log, agent_logs, vehicle, bookings>>

\* The loop over alerts_to_create left at any turn.
AlertsCreatedMutant ==
    /\ pc = "create_alert"
    /\ pc' = "create_booking"
    /\ UNCHANGED <<clocked, loads, passes, inputs, results, analysis, stages, workflow_results,
                   alert_idx, calls, marks, execution_log, tables>>

\* The loop over alerts_to_create is exhausted.
AlertsCreated ==
    /\ pc = "create_alert"
    /\ alert_idx > Len(prediction_result.alerts_to_create)
    /\ pc' = "create_booking"
    /\ UNCHANGED <<clocked, loads, passes, inputs, results, analysis, stages, workflow_results,
                   alert_idx, calls, marks, execution_log, tables>>

\* Lines 808-818, scheduling_result set.
CreateBooking ==
    /\ pc = "create_booking"
    /\ scheduling_result # None
    /\ calls' = Append(calls, Call("create_booking", FALSE))
    /\ bookings' = Append(bookings,
          [service_type |-> scheduling_result.service_type,
           priority |-> scheduling_result.priority,
           estimated_duration |-> scheduling_result.estimated_duration])
    /\ pc' = "master_log"
    /\ UNCHANGED <<clocked, loads, passes, inputs, results, analysis, stages, workflow_results,
                   alert_idx, marks, execution_log, agent_logs, vehicle, alerts>>

\* Line 808, scheduling_result None.
BookingSkipped ==
    /\ pc = "create_booking"
    /\ scheduling_result = None
    /\ pc' = "master_log"
    /\ UNCHANGED <<clocked, loads, passes, inputs, results, analysis, stages, workflow_results,
                   alert_idx, calls, marks, execution_log, tables>>

\* update_vehicle_health, create_alert or create_booking raises: the write is
\* not made and orchestrate ends with the error.
PersistenceRaisesMutant ==
    /\ \/ pc = "update_vehicle_health" /\ pc' = "create_alert" /\ alert_idx' = alert_idx
       \/ /\ pc = "create_alert" /\ alert_idx <= Len(prediction_result.alerts_to_create)
          /\ pc' = pc /\ alert_idx' = alert_idx + 1
       \/ /\ pc = "create_booking" /\ scheduling_result # <<>>
          /\ pc' = "master_log" /\ alert_idx' = alert_idx
    /\ calls' = Append(calls, Call(pc, TRUE))
    /\ UNCHANGED <<clocked, loads, passes, telemetry, failure_probability, anomaly_score,
                   prediction_result, diagnosis_result, scheduling_result,
                   customer_result, analysis, stages, workflow_results, marks,
                   execution_log, agent_logs, vehicle, alerts, bookings>>

PersistenceRaises ==
    /\ \/ pc = "update_vehicle_health"
       \/ pc = "create_alert" /\ alert_idx <= Len(prediction_result.alerts_to_create)
       \/ pc = "create_booking" /\ scheduling_result # None
    /\ calls' = Append(calls, Call(pc, TRUE))
    /\ pc' = "raised"
    /\ UNCHANGED <<clocked, loads, passes, inputs, results, analysis, stages, workflow_results,
                   alert_idx, marks, execution_log, tables>>

\* Lines 820-840: the result is completed, the orchestrator logs its own
\* entry and returns workflow_results.
OrchestrateReturns ==
    /\ pc = "master_log"
    /\ calls' = Append(calls, Call("log_execution", FALSE))
    /\ log_execution("master_agent", "orchestrate_workflow")
    /\ LET health_score == prediction_result.prediction_report.overall_health_score
       IN  workflow_results' =
              [stages |-> stages,
               actions_taken |-> Len(stages),
               health_score |-> health_score,
               status |-> VehicleStatus(health_score)]
    /\ pc' = "done"
    /\ UNCHANGED <<clocked, loads, passes, inputs, results, analysis, stages, alert_idx, marks,
                   vehicle, alerts, bookings>>

\* log_agent_action raises inside the orchestrator's own log_execution.
MasterLogRaises ==
    /\ pc = "master_log"
    /\ calls' = Append(calls, Call("log_execution", TRUE))
    /\ execution_log' = [execution_log EXCEPT !["master_agent"] =
                            Append(@, LogEntry("master_agent", "orchestrate_workflow"))]
    /\ pc' = "raised"
    /\ UNCHANGED <<clocked, loads, passes, inputs, results, analysis, stages, workflow_results,
                   alert_idx, marks, tables>>

\* A raising step comes first so that each stage's gate is exercised by the
\* raising and by the returning call alike.
Next ==
    \/ StartOrchestrate
    \/ StageRaises
    \/ StageLogRaises
    \/ PersistenceRaises
    \/ MasterLogRaises
    \/ PredictionStage
    \/ DiagnosisStage
    \/ DiagnosisSkipped
    \/ SchedulingStage
    \/ SchedulingSkipped
    \/ CustomerStage
    \/ CustomerSkipped
    \/ UpdateVehicleHealth
    \/ CreateAlert
    \/ AlertsCreated
    \/ CreateBooking
    \/ BookingSkipped
    \/ OrchestrateReturns

Spec == Init /\ [][Next]_vars

----------------------------------------------------------------------------
(* Properties of MasterAgent.orchestrate                                   *)

\* How often op was called in this pass.
Count(op) == Cardinality({k \in 1..Len(calls) : calls[k].op = op})

\* op was called in this pass.
Invoked(op) == Count(op) > 0

\* The place of the first call of op in this pass.
Position(op) == CHOOSE k \in 1..Len(calls) : calls[k].op = op

\* The stage was invoked in this pass and returned its result.
Ran(stage) == \E k \in 1..Len(stages) : stages[k] = stage

\* The places of orchestrate's steps, in program order.
Rank ==
    [prediction |-> 1, diagnosis |-> 2, scheduling |-> 3, customer |-> 4,
     update_vehicle_health |-> 5, create_alert |-> 6, create_booking |-> 7,
     master_log |-> 8, log_execution |-> 8, done |-> 9]

\* This pass has come to the step and gone on: it called it or passed it by.
Decided(step) ==
    \/ pc \in DOMAIN Rank /\ Rank[pc] > Rank[step]
    \/ pc = "raised" /\ calls # <<>> /\ Rank[calls[Len(calls)].op] >= Rank[step]

\* This pass returned its workflow result.
Returned == pc = "done"

\* The rows this pass added to a table.
Added(table, mark) == SubSeq(table, mark + 1, Len(table))

\* C1: scheduling is invoked iff the prediction's requires_scheduling
\* (= the report's requires_immediate_attention) is true and the diagnosis
\* stage ran earlier in the same pass; it is never invoked when diagnosis did
\* not run.
C1_SchedulingIffAttentionAndDiagnosis ==
    /\ Invoked("scheduling") =>
          /\ prediction_result.prediction_report.requires_immediate_attention
          /\ Ran("diagnosis")
          /\ Position("diagnosis") < Position("scheduling")
    /\ Decided("scheduling") =>
          /\ prediction_result.requires_scheduling
                = prediction_result.prediction_report.requires_immediate_attention
          /\ Invoked("scheduling") <=>
                (prediction_result.requires_scheduling /\ Ran("diagnosis"))

\* A pass returned in which the classifier alone asked for immediate
\* attention: diagnosis did not run and scheduling was not invoked.
C1_Witness ==
    /\ Returned
    /\ prediction_result.requires_scheduling
    /\ ~Ran("diagnosis")
    /\ ~Invoked("scheduling")

\* C2: the prediction stage is the first call of every pass and is called
\* exactly once; the diagnosis stage is invoked iff the report's
\* critical_components is not empty.
C2_PredictionFirstDiagnosisIffCritical ==
    /\ pc \notin {"idle", "prediction"} =>
          /\ calls # <<>>
          /\ calls[1].op = "prediction"
          /\ Count("prediction") = 1
    /\ Invoked("diagnosis") =>
          /\ Len(prediction_result.prediction_report.critical_components) > 0
          /\ Position("prediction") < Position("diagnosis")
    /\ Decided("diagnosis") =>
          (Invoked("diagnosis") <=>
              \E c \in DOMAIN prediction_result.prediction_report.component_health :
                  prediction_result.prediction_report.component_health[c].status
                      = "critical")

\* A pass returned with a warning component and a critical classifier risk
\* but no critical component: diagnosis was not invoked.
C2_Witness ==
    /\ Returned
    /\ prediction_result.prediction_report.warning_components # <<>>
    /\ prediction_result.prediction_report.failure_prediction.risk_level = "critical"
    /\ prediction_result.prediction_report.critical_components = <<>>
    /\ ~Invoked("diagnosis")

\* C3: the customer-notification stage is invoked iff the scheduling stage
\* ran in this pass and returned booking_created = true; never when
\* scheduling did not run; at most once per pass.
C3_CustomerIffBooking ==
    /\ Count("customer") <= 1
    /\ Invoked("customer") =>
          /\ Ran("scheduling")
          /\ scheduling_result.booking_created
          /\ Position("scheduling") < Position("customer")
    /\ Decided("customer") =>
          (Invoked("customer") <=>
              (Ran("scheduling") /\ scheduling_result.booking_created))

\* A pass returned in which scheduling ran and the customer was notified once.
C3_Witness ==
    /\ Returned
    /\ Ran("scheduling")
    /\ Count("customer") = 1
    /\ customer_result # None

\* C4: when a stage or a persistence call raises, orchestrate makes no later
\* call (no stage, no update_vehicle_health, create_alert or create_booking),
\* returns nothing, and what earlier steps recorded stays as it was.
C4_RaiseEndsThePass ==
    /\ [](\A k \in 1..Len(calls) : calls[k].raised =>
              /\ k = Len(calls)
              /\ pc = "raised"
              /\ workflow_results = None)
    /\ [][pc' = "raised" =>
              /\ IsPrefix(agent_logs, agent_logs')
              /\ \A a \in Agents : IsPrefix(execution_log[a], execution_log'[a])
              /\ vehicle' = vehicle
              /\ alerts' = alerts
              /\ bookings' = bookings
              /\ stages' = stages]_vars
    /\ [][pc = "raised" => (passes' = passes + 1 /\ tables' = tables
                            /\ execution_log' = execution_log)]_vars

\* create_booking raised after the stages logged, the vehicle row was
\* updated and an alert was written: all of that is still there.
C4_Witness ==
    /\ pc = "raised"
    /\ calls[Len(calls)].op = "create_booking"
    /\ Len(agent_logs) - marks.agent_logs = 4
    /\ Len(alerts) > marks.alerts
    /\ vehicle.health_score = prediction_result.prediction_report.overall_health_score

\* C5: a pass that returns has called update_vehicle_health exactly once,
\* with the report's overall_health_score and the status 'critical' below 50,
\* 'warning' from 50 to below 70, 'healthy' otherwise; the workflow result
\* carries the same status.
C5_VehicleHealthPersistedOnce ==
    Returned =>
        /\ Count("update_vehicle_health") = 1
        /\ vehicle.health_score = prediction_result.prediction_report.overall_health_score
        /\ vehicle.health_score < 500 => vehicle.status = "critical"
        /\ (500 <= vehicle.health_score /\ vehicle.health_score < 700) =>
              vehicle.status = "warning"
        /\ vehicle.health_score >= 700 => vehicle.status = "healthy"
        /\ workflow_results.status = vehicle.status
        /\ workflow_results.health_score = vehicle.health_score

\* A pass returned with an overall health score of exactly 70.0 and no
\* scheduling skipped: the row says healthy.
C5_Witness ==
    /\ Returned
    /\ vehicle.health_score = 700
    /\ vehicle.status = "healthy"
    /\ Ran("customer")

\* C6: a pass that returns has created exactly one alert for each 'high'
\* recommendation of the report (one per critical component, none for a
\* warning component) and exactly one booking iff the scheduling stage ran.
C6_AlertsAndBookingPersisted ==
    Returned =>
        LET report == prediction_result.prediction_report
            new_alerts == Added(alerts, marks.alerts)
            new_bookings == Added(bookings, marks.bookings)
        IN  /\ \A c \in Range(ComponentOrder) :
                  Cardinality({k \in 1..Len(new_alerts) : new_alerts[k].component = c})
                    = Cardinality({k \in 1..Len(report.recommendations) :
                                      /\ report.recommendations[k].priority = "high"
                                      /\ report.recommendations[k].component = c})
            /\ \A c \in Range(ComponentOrder) :
                  Cardinality({k \in 1..Len(new_alerts) : new_alerts[k].component = c})
                    = IF /\ c \in DOMAIN report.component_health
                         /\ report.component_health[c].status = "critical"
                      THEN 1 ELSE 0
            /\ Count("create_alert") = Len(new_alerts)
            /\ Len(new_bookings) = IF Ran("scheduling") THEN 1 ELSE 0
            /\ Count("create_booking") = Len(new_bookings)

\* A pass returned with critical and warning components: alerts for the
\* critical ones only, and one booking.
C6_Witness ==
    /\ Returned
    /\ Len(prediction_result.prediction_report.critical_components) >= 2
    /\ prediction_result.prediction_report.warning_components # <<>>
    /\ Len(alerts) - marks.alerts
          = Len(prediction_result.prediction_report.critical_components)
    /\ Len(bookings) - marks.bookings = 1

\* The log rows the stages that ran have recorded, in the order they ran.
StageEntries == MapSeq(stages, LAMBDA stage : LogEntry(StageAgent[stage], StageAction[stage]))

\* C7: each stage that runs records exactly one log entry before its result
\* comes back to orchestrate; orchestrate records its own entry last; a pass
\* that returns has recorded one entry per stage run plus one, in the order
\* prediction, diagnosis, scheduling, customer, master; no step alters or
\* removes an entry already recorded.
C7_OneLogEntryPerStage ==
    /\ [](/\ Added(agent_logs, marks.agent_logs)
              = StageEntries \o (IF Returned
                                 THEN <<LogEntry("master_agent", "orchestrate_workflow")>>
                                 ELSE <<>>)
          /\ \A j, k \in 1..Len(stages) : j < k => Rank[stages[j]] < Rank[stages[k]]
          /\ Returned =>
                /\ Len(agent_logs) - marks.agent_logs = Len(stages) + 1
                /\ workflow_results.actions_taken = Len(stages))
    /\ [][/\ IsPrefix(agent_logs, agent_logs')
          /\ \A a \in Agents : IsPrefix(execution_log[a], execution_log'[a])
          /\ Len(stages') > Len(stages) => Len(agent_logs') = Len(agent_logs) + 1]_vars

\* A second pass returned after all four stages ran: five new entries after
\* the first pass's.
C7_Witness ==
    /\ Returned
    /\ stages = <<"prediction", "diagnosis", "scheduling", "customer">>
    /\ marks.agent_logs > 0
    /\ Len(agent_logs) = marks.agent_logs + 5

----------------------------------------------------------------------------
(* The engine, the analyzer and the diagnosis mapper as pure functions:    *)
(* each is applied to a reading of the grid.                               *)

EngineInit ==
    /\ pc = "input"
    /\ passes = 0
    /\ \/ \E et \in EngineTempValues, op \in OilPressureValues,
             bv \in BatteryVoltageValues, vib \in VibrationValues,
             bw \in BrakeWearValues, ct \in CoolantTempValues,
             fl \in TirePressureValues, fr \in TirePressureValues,
             codes \in ErrorCodeValues :
               telemetry = Reading(et, op, bv, vib, bw, ct, fl, fr, codes)
       \/ telemetry \in SparseReadings
       \/ telemetry \in BandEdgeReadings
    /\ ~OnRoundingTie(telemetry)
    /\ failure_probability = 0
    /\ anomaly_score = 0
    /\ prediction_result = None
    /\ diagnosis_result = None
    /\ scheduling_result = None
    /\ customer_result = None
    /\ analysis = None
    /\ stages = <<>>
    /\ workflow_results = None
    /\ alert_idx = 1
    /\ calls = <<>>
    /\ marks = [agent_logs |-> 0, alerts |-> 0, bookings |-> 0]
    /\ execution_log = [a \in Agents |-> <<>>]
    /\ agent_logs = <<>>
    /\ vehicle = [health_score |-> 1000, status |-> "healthy"]
    /\ alerts = <<>>
    /\ bookings = <<>>
    /\ now = 0
    /\ reports = <<>>
    /\ garages = SeededGarages
    /\ service_centers = SeededServiceCenters
    /\ load_call = None

orchestration == <<passes, scheduling_result, customer_result, stages,
                   workflow_results, alert_idx, calls, marks, execution_log, tables>>

\* generate_prediction_report(telemetry), as PredictionAgent.process calls it.
GenerateReport ==
    /\ pc = "input"
    /\ \E answer \in ModelAnswers :
          /\ failure_probability' = answer[1]
          /\ anomaly_score' = answer[2]
          /\ prediction_result' = PredictionProcessResult(telemetry, answer[1], answer[2])
          /\ reports' = <<ReportAt(now, generate_prediction_report(telemetry, answer[1],
                                                                   answer[2]))>>
    /\ pc' = "reported"
    /\ UNCHANGED <<loads, now, telemetry, diagnosis_result, analysis, orchestration>>

\* generate_prediction_report(telemetry) once more on the same engine (the
\* fitted models answer as before), some ticks of the clock later.
GenerateReportAgain ==
    /\ pc = "reported"
    /\ \E elapsed \in 0..MaxElapsed :
          /\ now' = now + elapsed
          /\ reports' = Append(reports,
                 ReportAt(now + elapsed, generate_prediction_report(
                     telemetry, failure_probability, anomaly_score)))
    /\ pc' = "reported_again"
    /\ UNCHANGED <<loads, inputs, prediction_result, diagnosis_result, analysis, orchestration>>

\* _diagnose_component(component, health) on one entry of the engine's
\* component-health map, for one outcome of the set order.
DiagnoseComponent ==
    /\ pc = "input"
    /\ \E component_health \in {analyze_component_health(telemetry)} :
        \E component \in DOMAIN component_health :
          /\ component_health[component].status \in {"critical", "warning"}
          /\ \E first \in FirstCauses(component, component_health[component]) :
                diagnosis_result' =
                    diagnose_component(component, component_health[component], first)
    /\ pc' = "diagnosed"
    /\ UNCHANGED <<clocked, loads, inputs, prediction_result, analysis, orchestration>>

\* _diagnose_component once more, on a health entry that differs from the
\* one diagnosed before only in its health_score.
DiagnoseWithHealthScore ==
    /\ pc = "diagnosed"
    /\ \E health \in {analyze_component_health(telemetry)[diagnosis_result.component]} :
        \E health_score \in HealthScoreValues :
          diagnosis_result' =
              diagnose_component(diagnosis_result.component,
                                 [health EXCEPT !.health_score = health_score],
                                 diagnosis_result.primary_cause)
    /\ pc' = "rediagnosed"
    /\ UNCHANGED <<clocked, loads, inputs, prediction_result, analysis, orchestration>>

\* analyze_telemetry_anomalies(telemetry)
AnalyzeTelemetry ==
    /\ pc = "input"
    /\ analysis' = analyze_telemetry_anomalies(telemetry, GetOr(telemetry, "error_codes", <<>>))
    /\ pc' = "analyzed"
    /\ UNCHANGED <<clocked, loads, inputs, prediction_result, diagnosis_result, orchestration>>

EngineNext ==
    \/ GenerateReport \/ GenerateReportAgain
    \/ DiagnoseComponent \/ DiagnoseWithHealthScore
    \/ AnalyzeTelemetry

SpecEngine == EngineInit /\ [][EngineNext]_vars

----------------------------------------------------------------------------
(* The load updates applied to tables of a few rows                        *)

\* Tables whose rows have current_load <= capacity; nothing else has run.
LoadInit ==
    /\ pc = "loads"
    /\ passes = 0
    /\ telemetry = EmptyDict
    /\ failure_probability = 0
    /\ anomaly_score = 0
    /\ prediction_result = None
    /\ diagnosis_result = None
    /\ scheduling_result = None
    /\ customer_result = None
    /\ analysis = None
    /\ stages = <<>>
    /\ workflow_results = None
    /\ alert_idx = 1
    /\ calls = <<>>
    /\ marks = [agent_logs |-> 0, alerts |-> 0, bookings |-> 0]
    /\ execution_log = [a \in Agents |-> <<>>]
    /\ agent_logs = <<>>
    /\ vehicle = [health_score |-> 1000, status |-> "healthy"]
    /\ alerts = <<>>
    /\ bookings = <<>>
    /\ now = 0
    /\ reports = <<>>
    /\ garages \in [GarageIds -> LoadRows]
    /\ service_centers \in [ServiceCenterIds -> LoadRows]
    /\ load_call = None

\* The load does not go below -MaxLoadChange.
LoadBounded(rows, id, load_change) ==
    id \in DOMAIN rows => rows[id].current_load + load_change >= -MaxLoadChange

\* A caller runs update_garage_load(garage_id, load_change).
UpdateGarageLoad ==
    /\ pc = "loads"
    /\ \E garage_id \in GarageIds \cup {MissingId}, load_change \in LoadChanges :
          /\ LoadBounded(garages, garage_id, load_change)
          /\ \E result \in {update_garage_load(garages, garage_id, load_change)} :
                /\ garages' = result.rows
                /\ load_call' = LoadCall("update_garage_load", garage_id,
                                         load_change, garages, result.returned)
    /\ UNCHANGED <<clocked, pc, inputs, prediction_result, diagnosis_result,
                   analysis, orchestration, service_centers>>

\* A caller runs update_service_center_load(service_center_id, load_change).
UpdateServiceCenterLoad ==
    /\ pc = "loads"
    /\ \E service_center_id \in ServiceCenterIds \cup {MissingId},
          load_change \in LoadChanges :
          /\ LoadBounded(service_centers, service_center_id, load_change)
          /\ \E result \in {update_service_center_load(service_centers,
                                    service_center_id, load_change)} :
                /\ service_centers' = result.rows
                /\ load_call' = LoadCall("update_service_center_load",
                                         service_center_id, load_change,
                                         service_centers, result.returned)
    /\ UNCHANGED <<clocked, pc, inputs, prediction_result, diagnosis_result,
                   analysis, orchestration, garages>>

LoadNext ==
    \/ UpdateGarageLoad
    \/ UpdateServiceCenterLoad

SpecLoad == LoadInit /\ [][LoadNext]_vars

----------------------------------------------------------------------------
(* Properties of the engine, the analyzer and the diagnosis mapper         *)

\* The report of the reading, once generate_prediction_report has returned it.
Reported == pc = "reported"

\* C8: every component entry analyze_component_health produces has a
\* days_to_potential_failure of at least 1.
C8_DaysToFailureAtLeastOne ==
    Reported =>
        \A c \in DOMAIN prediction_result.prediction_report.component_health :
            prediction_result.prediction_report.component_health[c]
                .days_to_potential_failure >= 1

\* The indicators the reading has, outside error_codes.
Present(t) == {i \in Indicators : Get(t, i) # <<>>}

\* C9: every health score emitted lies in [0, 100] (indicator score,
\* component health_score, overall_health_score, analyzer health_score,
\* diagnosis priority_score) and every risk or probability in [0, 1]
\* (component failure_risk, anomaly_probability, the two confidences).
C9_ScoresAndProbabilitiesInRange ==
    /\ \A i \in Present(telemetry) :
          calculate_indicator_health(i, telemetry[i][1]).score \in 0..1000
    /\ Reported =>
          LET report == prediction_result.prediction_report
          IN  /\ \A c \in DOMAIN report.component_health :
                    /\ report.component_health[c].health_score \in 0..1000
                    /\ report.component_health[c].failure_risk \in 0..1000
              /\ report.overall_health_score \in 0..1000
              /\ report.anomaly_detection.anomaly_probability \in 0..1000
              /\ report.anomaly_detection.confidence \in 0..1000
              /\ report.failure_prediction.failure_probability \in 0..100
              /\ report.failure_prediction.confidence \in 0..100
    /\ pc = "diagnosed" => diagnosis_result.priority_score \in 0..1000
    /\ pc = "analyzed" => analysis.health_score \in 0..100

\* A report with a component whose indicators are all so far out of band
\* that the floor of the score acts: health 0, risk 1.
C9_Witness ==
    /\ Reported
    /\ \E c \in DOMAIN prediction_result.prediction_report.component_health :
          /\ prediction_result.prediction_report.component_health[c].health_score = 0
          /\ prediction_result.prediction_report.component_health[c].failure_risk = 1000
    /\ prediction_result.prediction_report.anomaly_detection.confidence = 1000

\* The indicator is in the reading, inside its normal band.
InBand(t, i) ==
    /\ Get(t, i) # <<>>
    /\ normal_ranges[i][1] <= t[i][1]
    /\ t[i][1] <= normal_ranges[i][2]

\* C10: for a reading with engine_temp 150, oil_pressure 45 and every other
\* indicator inside its normal band, the report has the engine 'critical',
\* a 'high' recommendation for the engine, and requires_immediate_attention.
C10_Scenario1EngineCritical ==
    (/\ Reported
     /\ Get(telemetry, "engine_temp") = <<15000>>
     /\ Get(telemetry, "oil_pressure") = <<4500>>
     /\ \A i \in Indicators \ {"engine_temp"} : InBand(telemetry, i))
    =>
        LET report == prediction_result.prediction_report
        IN  /\ report.component_health["engine"].status = "critical"
            /\ \E k \in 1..Len(report.recommendations) :
                  /\ report.recommendations[k].priority = "high"
                  /\ report.recommendations[k].component = "engine"
            /\ report.requires_immediate_attention

\* A diagnosis of the component has been made.
DiagnosisOf(component) ==
    /\ pc = "diagnosed"
    /\ diagnosis_result.component = component

\* The possible_causes of the brakes' high_wear knowledge-base entry.
HighWearCauses == Range(DIAGNOSIS_KNOWLEDGE_BASE["brakes"]["high_wear"].possible_causes)

\* C11: for a reading with brake_wear 75 and vibration_level 2.5 the brakes
\* have a health_score below 50 and their diagnosis has
\* estimated_repair_minutes 90 and a primary_cause that is one of the
\* high-wear causes, whatever order the de-duplication leaves.
C11_Scenario3BrakesHighWear ==
    (/\ DiagnosisOf("brakes")
     /\ Get(telemetry, "brake_wear") = <<7500>>
     /\ Get(telemetry, "vibration_level") = <<250>>)
    =>
        /\ diagnosis_result.health_score < 500
        /\ diagnosis_result.estimated_repair_minutes = 90
        /\ diagnosis_result.primary_cause \in HighWearCauses

\* C12: the report's requires_immediate_attention is true exactly when
\* critical_components is non-empty or the classifier's risk_level is
\* 'critical'; each of the two alone is enough.
C12_ImmediateAttentionIffCriticalOrRisk ==
    Reported =>
        LET report == prediction_result.prediction_report
        IN  /\ report.requires_immediate_attention
                <=> (\/ \E c \in DOMAIN report.component_health :
                           report.component_health[c].status = "critical"
                     \/ report.failure_prediction.failure_probability >= 70)
            /\ Len(report.critical_components) > 0
                <=> \E c \in DOMAIN report.component_health :
                       report.component_health[c].status = "critical"
            /\ report.failure_prediction.risk_level = "critical"
                <=> report.failure_prediction.failure_probability >= 70

\* A report that requires attention on the classifier's word alone: no
\* component is critical.
C12_Witness ==
    /\ Reported
    /\ prediction_result.prediction_report.critical_components = <<>>
    /\ prediction_result.prediction_report.failure_prediction.risk_level = "critical"
    /\ prediction_result.prediction_report.requires_immediate_attention

\* C13: two calls of generate_prediction_report with the same telemetry on
\* the same engine return reports that are equal in every field.
C13_SameTelemetrySameReport ==
    pc = "reported_again" => reports[1] = reports[2]

\* No issue of the component's health selects an entry of the knowledge base.
NoIssueMatches(component, health) ==
    \A k \in 1..Len(health.issues) :
        KbEntry(DictGet(DIAGNOSIS_KNOWLEDGE_BASE, component, EmptyDict),
                health.issues[k]) = EmptyDict

\* C14: the diagnosis of a component none of whose issues matches a
\* knowledge-base entry has primary_cause 'Requires inspection'; any other
\* diagnosis has the first of its possible_causes as primary_cause.
C14_FallbackWhenNoCauseMatched ==
    pc = "diagnosed" =>
        LET health == analyze_component_health(telemetry)[diagnosis_result.component]
        IN  IF NoIssueMatches(diagnosis_result.component, health)
            THEN diagnosis_result.primary_cause = "Requires inspection"
            ELSE diagnosis_result.primary_cause \in diagnosis_result.cause_pool

\* The component's high-temperature entry of the knowledge base: high_temp,
\* else high_coolant_temp, else the empty entry.
HighTempEntry(component) ==
    LET knowledge == DictGet(DIAGNOSIS_KNOWLEDGE_BASE, component, EmptyDict)
    IN  DictGet(knowledge, "high_temp", DictGet(knowledge, "high_coolant_temp", EmptyDict))

\* The issue is a temperature indicator above its normal band.
TemperatureAboveBand(issue) ==
    /\ issue.indicator \in {"engine_temp", "coolant_temp"}
    /\ issue.value > normal_ranges[issue.indicator][2]

\* C15: in the diagnosis of engine-produced component health, an issue of
\* engine_temp or coolant_temp above its normal band selects the component's
\* high-temperature entry: the entry's causes and actions are in the
\* diagnosis's pools and its severity multiplier is applied.
C15_HighTemperatureSelectsEntry ==
    pc = "diagnosed" =>
        LET component == diagnosis_result.component
            health == analyze_component_health(telemetry)[component]
            entry == HighTempEntry(component)
        IN  (\E k \in 1..Len(health.issues) : TemperatureAboveBand(health.issues[k]))
            =>
               /\ Range(DictGet(entry, "possible_causes", <<"Unknown cause">>))
                    \subseteq diagnosis_result.cause_pool
               /\ Range(DictGet(entry, "recommended_actions", <<"General inspection">>))
                    \subseteq diagnosis_result.action_pool
               /\ diagnosis_result.priority_score
                    >= PriorityScore(health.health_score,
                                     DictGet(entry, "severity_multiplier", 10))

\* Position of a component in the iteration order of COMPONENT_FAILURE_PATTERNS.
ComponentRank(c) == CHOOSE k \in 1..Len(ComponentOrder) : ComponentOrder[k] = c

\* C16: in the recommendations of a report every 'high' entry comes before
\* every 'medium' entry, the entries of one tier are in the component
\* iteration order, and there is exactly one entry per critical or warning
\* component ('high' for critical, 'medium' for warning) and none for a
\* healthy one.
C16_RecommendationsOrderedOnePerComponent ==
    Reported =>
        LET report == prediction_result.prediction_report
            recs == report.recommendations
        IN  /\ \A j, k \in 1..Len(recs) :
                  j < k =>
                    /\ ~(recs[j].priority = "medium" /\ recs[k].priority = "high")
                    /\ recs[j].priority = recs[k].priority =>
                          ComponentRank(recs[j].component) < ComponentRank(recs[k].component)
            /\ \A k \in 1..Len(recs) :
                  /\ recs[k].component \in DOMAIN report.component_health
                  /\ recs[k].priority \in {"high", "medium"}
                  /\ recs[k].priority = "high"
                        <=> report.component_health[recs[k].component].status = "critical"
            /\ \A c \in DOMAIN report.component_health :
                  Cardinality({k \in 1..Len(recs) : recs[k].component = c})
                    = IF report.component_health[c].status \in {"critical", "warning"}
                      THEN 1 ELSE 0

\* A report where the sort moved a 'high' entry in front of the 'medium'
\* entry of a component that comes earlier in the iteration, with two
\* entries in one tier and a healthy component.
C16_Witness ==
    /\ Reported
    /\ LET report == prediction_result.prediction_report
           recs == report.recommendations
       IN  /\ \E j, k \in 1..Len(recs) :
                 /\ j < k
                 /\ recs[j].priority = "high"
                 /\ recs[k].priority = "medium"
                 /\ ComponentRank(recs[j].component) > ComponentRank(recs[k].component)
           /\ \E j, k \in 1..Len(recs) :
                 j < k /\ recs[j].priority = recs[k].priority
           /\ \E c \in DOMAIN report.component_health :
                 report.component_health[c].status = "healthy"

\* The component's health entry as the engine produced it for the reading.
EngineHealth == analyze_component_health(telemetry)[diagnosis_result.component]

\* C17: when the diagnosis mapper is applied to two health entries of one
\* component that differ only in health_score, the entry with the lower
\* health_score gets a priority_score at least as large as the other's.
C17_PriorityMonotoneInHealth ==
    [][(pc = "diagnosed" /\ pc' = "rediagnosed")
        => /\ diagnosis_result'.component = diagnosis_result.component
           /\ diagnosis_result'.cause_pool = diagnosis_result.cause_pool
           /\ diagnosis_result'.health_score <= diagnosis_result.health_score
                => diagnosis_result'.priority_score >= diagnosis_result.priority_score
           /\ diagnosis_result'.health_score >= diagnosis_result.health_score
                => diagnosis_result'.priority_score <= diagnosis_result.priority_score]_vars

\* A second diagnosis on a lower health_score than the engine's, with a
\* strictly larger priority_score that the cap at 100 has not reached.
C17_Witness ==
    /\ pc = "rediagnosed"
    /\ diagnosis_result.health_score < EngineHealth.health_score
    /\ diagnosis_result.priority_score
          > PriorityScore(EngineHealth.health_score,
                          SeverityMultiplier(diagnosis_result.component, EngineHealth))
    /\ diagnosis_result.priority_score < 1000

\* The indicator is in the reading, at the midpoint of its normal band.
AtMidpoint(t, i) ==
    /\ Get(t, i) # <<>>
    /\ 2 * t[i][1] = normal_ranges[i][1] + normal_ranges[i][2]

\* Every indicator of the component that the reading has is at its midpoint.
AllAtMidpoint(t, component) ==
    \A k \in 1..Len(COMPONENT_FAILURE_PATTERNS[component].indicators) :
        LET i == COMPONENT_FAILURE_PATTERNS[component].indicators[k]
        IN  Get(t, i) # <<>> => AtMidpoint(t, i)

\* C18: a component whose present indicators are all at the midpoint of
\* their band has health_score 100, failure_risk 0, days_to_potential_failure
\* equal to its mtbf_days, status 'healthy' and maintenance_urgency
\* 'scheduled'; this holds for each of the six components.
C18_HealthyComponentBaseline ==
    Reported =>
        \A c \in DOMAIN prediction_result.prediction_report.component_health :
            AllAtMidpoint(telemetry, c) =>
                LET entry == prediction_result.prediction_report.component_health[c]
                IN  /\ entry.health_score = 1000
                    /\ entry.failure_risk = 0
                    /\ entry.days_to_potential_failure
                          = COMPONENT_FAILURE_PATTERNS[c].mtbf_days
                    /\ entry.status = "healthy"
                    /\ entry.maintenance_urgency = "scheduled"
                    /\ entry.issues = <<>>

\* The report of a reading that has all six components scored, each with
\* all its indicators at the midpoint.
C18_Witness ==
    /\ Reported
    /\ DOMAIN prediction_result.prediction_report.component_health
          = DOMAIN COMPONENT_FAILURE_PATTERNS
    /\ \A c \in DOMAIN COMPONENT_FAILURE_PATTERNS : AllAtMidpoint(telemetry, c)
    /\ prediction_result.prediction_report.component_health["brakes"]
          .days_to_potential_failure = 180

\* x is the fraction num / den rounded to the nearest unit.
RoundedFrom(x, num, den) == 2 * Abs(x * den - num) <= den

\* The indicator health the engine computes for the reading's value agrees
\* with the formulas: deviation |value - mid| / half_range inside the band
\* and 1 + beyond / (half_range * divisor_halves / 2) outside it (beyond is
\* the distance past the bound); score max(0, 100 - 30 * deviation); status
\* by the score, which is the score the code holds in doubles: a hair under
\* 70 where ScoreShortInDoubles; a midpoint value scores 100 'normal'.
IndicatorHealthAgrees(t, i, divisor_halves) ==
    LET value == t[i][1]
        min_val == normal_ranges[i][1]
        max_val == normal_ranges[i][2]
        range_size == max_val - min_val
        beyond == IF value < min_val THEN min_val - value
                  ELSE IF value > max_val THEN value - max_val
                  ELSE 0
        \* the deviation is devNum / devDen
        devNum == IF beyond > 0
                  THEN range_size * divisor_halves + 4 * beyond
                  ELSE Abs(2 * value - (min_val + max_val)) * divisor_halves
        devDen == range_size * divisor_halves
        \* the score is scoreNum / devDen
        scoreNum == Max(0, 100 * devDen - 30 * devNum)
        health == calculate_indicator_health(i, value)
    IN  /\ RoundedFrom(health.deviation, 100 * devNum, devDen)
        /\ RoundedFrom(health.score, 10 * scoreNum, devDen)
        /\ health.status = IF scoreNum < 50 * devDen THEN "critical"
                           ELSE IF \/ scoreNum < 70 * devDen
                                   \/ /\ scoreNum = 70 * devDen
                                      /\ ScoreShortInDoubles(i, value)
                                THEN "warning"
                           ELSE "normal"
        /\ AtMidpoint(t, i) => health.score = 1000 /\ health.status = "normal"

\* C19, as claimed: the indicator health follows the formulas with the
\* distance beyond the bound divided by half_range * 0.5.
C19_DeviationBeyondBandOverQuarterRange ==
    \A i \in Present(telemetry) : IndicatorHealthAgrees(telemetry, i, 1)

\* C19, amended: the indicator health follows the formulas with the
\* distance beyond the bound divided by half_range (the code's
\* range_size * 0.5): deviation |value - mid| / half_range inside the band,
\* 1 + beyond / half_range outside it, score max(0, 100 - 30 * deviation),
\* status critical below 50, warning below 70, else normal, and a midpoint
\* value scores 100 with status normal.
C19_DeviationBeyondBandOverHalfRange ==
    \A i \in Present(telemetry) : IndicatorHealthAgrees(telemetry, i, 2)

\* A report with an issue whose value lies above the band without reaching
\* score 0, so that the slope beyond the bound shows in the deviation
\* (vibration_level 2.5: 1 + 0.5 / 0.95 = 1.53), next to an indicator at
\* its midpoint.
C19_Witness ==
    /\ Reported
    /\ AtMidpoint(telemetry, "engine_temp")
    /\ \E c \in DOMAIN prediction_result.prediction_report.component_health :
        \E k \in 1..Len(prediction_result.prediction_report.component_health[c].issues) :
            LET issue == prediction_result.prediction_report.component_health[c].issues[k]
            IN  /\ issue.indicator = "vibration_level"
                /\ issue.value = 250
                /\ issue.deviation = 153
                /\ issue.status = "warning"

\* x is the floor of the fraction num / den.
FloorOf(x, num, den) == x * den <= num /\ num < (x + 1) * den

\* The scores (tenths) of the component's indicators that the reading has.
IndicatorScores(t, component) ==
    MapSeq(SelectSeq(COMPONENT_FAILURE_PATTERNS[component].indicators,
                     LAMBDA i : Get(t, i) # <<>>),
           LAMBDA i : calculate_indicator_health(i, t[i][1]).score)

\* C20: every component entry has days_to_potential_failure equal to
\* floor(mtbf_days * (1 - failure_risk) * 0.3) when failure_risk, which is
\* 1 - avg_health / 100, is at least the component's failure_threshold, and
\* to floor(mtbf_days * (1 - failure_risk)) otherwise; maintenance_urgency is
\* 'immediate' below 7 days, 'soon' below 30, else 'scheduled'. failure_risk
\* is the value the code derives in doubles: where DaysShortInDoubles it is
\* a hair over 1 - avg_health / 100 and the product a hair under a whole
\* number of days, whose floor is the day before.
C20_DaysToFailureAndUrgency ==
    Reported =>
        \A c \in DOMAIN prediction_result.prediction_report.component_health :
            LET entry == prediction_result.prediction_report.component_health[c]
                config == COMPONENT_FAILURE_PATTERNS[c]
                days == entry.days_to_potential_failure
                scores == IndicatorScores(telemetry, c)
                \* avg_health / 100 = healthy / whole, failure_risk = 1 - that
                healthy == SumSeq(scores)
                whole == 1000 * Len(scores)
            IN  /\ IF 100 * (whole - healthy) >= config.failure_threshold * whole
                   THEN FloorOf(days, 3 * config.mtbf_days * healthy, 10 * whole)
                   ELSE IF /\ DaysShortInDoubles(config.mtbf_days, healthy,
                                                  Len(scores))
                           /\ (config.mtbf_days * healthy) % whole = 0
                        THEN days = (config.mtbf_days * healthy) \div whole - 1
                        ELSE FloorOf(days, config.mtbf_days * healthy, whole)
                /\ RoundedFrom(entry.failure_risk, 1000 * (whole - healthy), whole)
                /\ entry.maintenance_urgency
                      = IF days < 7 THEN "immediate"
                        ELSE IF days < 30 THEN "soon"
                        ELSE "scheduled"

\* A report with the three tiers: the brakes at risk 0.729, over their
\* threshold 0.65, with floor(180 * 0.271 * 0.3) = 14 days ('soon'), a
\* component with less than 7 days and one under its threshold.
C20_Witness ==
    /\ Reported
    /\ LET component_health == prediction_result.prediction_report.component_health
       IN  /\ "brakes" \in DOMAIN component_health
           /\ component_health["brakes"].failure_risk = 729
           /\ component_health["brakes"].days_to_potential_failure = 14
           /\ component_health["brakes"].maintenance_urgency = "soon"
           /\ \E c \in DOMAIN component_health :
                 component_health[c].maintenance_urgency = "immediate"
           /\ \E c \in DOMAIN component_health :
                 /\ component_health[c].maintenance_urgency = "scheduled"
                 /\ component_health[c].failure_risk > 0
                 /\ component_health[c].failure_risk
                        < 10 * COMPONENT_FAILURE_PATTERNS[c].failure_threshold

\* The fields of a prediction report (vehicle_info, which is passed through,
\* and the clock's timestamp aside).
ReportFields ==
    {"anomaly_detection", "failure_prediction", "component_health",
     "overall_health_score", "critical_components", "warning_components",
     "recommendations", "requires_immediate_attention"}

\* C21: an indicator the reading lacks is skipped: a component's
\* health_score is the mean over its present indicators only; a component
\* with no present indicator has no entry in the component-health map; and
\* with no component scored the report still has every field, with
\* overall_health_score 100 and empty critical, warning and recommendation
\* lists.
C21_AbsentIndicatorsSkipped ==
    Reported =>
        LET report == prediction_result.prediction_report
        IN  /\ DOMAIN report = ReportFields
            /\ \A c \in DOMAIN COMPONENT_FAILURE_PATTERNS :
                  LET scores == IndicatorScores(telemetry, c)
                  IN  /\ c \in DOMAIN report.component_health <=> Len(scores) > 0
                      /\ c \in DOMAIN report.component_health =>
                            RoundedFrom(report.component_health[c].health_score,
                                        SumSeq(scores), Len(scores))
            /\ DOMAIN report.component_health = {} =>
                  /\ report.overall_health_score = 1000
                  /\ report.critical_components = <<>>
                  /\ report.warning_components = <<>>
                  /\ report.recommendations = <<>>

\* The report of the reading without any indicator: no component scored.
C21_Witness ==
    /\ Reported
    /\ Present(telemetry) = {}
    /\ DOMAIN prediction_result.prediction_report.component_health = {}
    /\ prediction_result.prediction_report.overall_health_score = 1000

\* The severity multipliers (tenths) of the knowledge-base entries the
\* issues select, with the default 1.0.
MatchedMultipliers(component, health) ==
    {10} \cup {DictGet(KbEntry(DictGet(DIAGNOSIS_KNOWLEDGE_BASE, component, EmptyDict),
                               health.issues[k]),
                       "severity_multiplier", 10) : k \in 1..Len(health.issues)}

\* C22: a diagnosis's priority_score is min(100, (100 - health_score) * m)
\* rounded to one decimal, m being the largest severity_multiplier of the
\* knowledge-base entries the component's issues matched, 1.0 if none did.
C22_PriorityScoreFormula ==
    pc \in {"diagnosed", "rediagnosed"} =>
        LET ms == MatchedMultipliers(diagnosis_result.component, EngineHealth)
            m == CHOOSE x \in ms : \A y \in ms : y <= x
        IN  RoundedFrom(diagnosis_result.priority_score,
                        Min(10000, (1000 - diagnosis_result.health_score) * m), 10)

\* A diagnosis whose issues matched an entry with multiplier 1.8 and whose
\* score stays under the cap.
C22_Witness ==
    /\ pc = "diagnosed"
    /\ 18 \in MatchedMultipliers(diagnosis_result.component, EngineHealth)
    /\ diagnosis_result.priority_score < 1000
    /\ diagnosis_result.priority_score > 1000 - diagnosis_result.health_score

\* C23: DiagnosisAgent.process returns exactly one diagnosis per component
\* of the report with status critical or warning and none for a healthy
\* one, ordered by descending priority_score, equal scores in component
\* iteration order; total_issues is the number of diagnoses,
\* requires_immediate_action says that some priority_score exceeds 80, and
\* estimated_repair_time is the sum of the estimated_repair_minutes.
C23_DiagnosesOnePerComponentSorted ==
    diagnosis_result # None =>
        LET component_health == prediction_result.prediction_report.component_health
            diagnoses == diagnosis_result.diagnoses
        IN  /\ \A c \in DOMAIN component_health :
                  Cardinality({k \in 1..Len(diagnoses) : diagnoses[k].component = c})
                    = IF component_health[c].status \in {"critical", "warning"}
                      THEN 1 ELSE 0
            /\ \A k \in 1..Len(diagnoses) :
                  diagnoses[k].component \in DOMAIN component_health
            /\ \A j, k \in 1..Len(diagnoses) :
                  j < k =>
                    /\ diagnoses[j].priority_score >= diagnoses[k].priority_score
                    /\ diagnoses[j].priority_score = diagnoses[k].priority_score
                          => ComponentRank(diagnoses[j].component)
                                < ComponentRank(diagnoses[k].component)
            /\ diagnosis_result.total_issues = Len(diagnoses)
            /\ diagnosis_result.requires_immediate_action
                  <=> \E k \in 1..Len(diagnoses) : diagnoses[k].priority_score > 800
            /\ diagnosis_result.estimated_repair_time
                  = SumSeq([k \in 1..Len(diagnoses) |->
                                diagnoses[k].estimated_repair_minutes])

\* A result with four diagnoses, two of them tied at the top in component
\* order, the engine (first in the iteration) sorted to the third place, and
\* healthy components left out.
C23_Witness ==
    /\ diagnosis_result # None
    /\ Len(diagnosis_result.diagnoses) = 4
    /\ diagnosis_result.diagnoses[1].priority_score
          = diagnosis_result.diagnoses[2].priority_score
    /\ diagnosis_result.diagnoses[3].component = "engine"
    /\ diagnosis_result.requires_immediate_action
    /\ diagnosis_result.estimated_repair_time = 60 + 180 + 120 + 90
    /\ prediction_result.prediction_report.component_health["tires"].status = "healthy"

\* The value lies outside the band <<min, max>>.
Outside(value, band) == value < band[1] \/ value > band[2]

\* The anomalies of the analysis that carry the parameter.
AnomaliesOf(parameter) ==
    SelectSeq(analysis.anomalies, LAMBDA a : a.parameter = parameter)

\* C24: in the result of analyze_telemetry_anomalies each of the six scalar
\* indicators has one critical anomaly adding 30 when its value is outside
\* the critical band, one warning anomaly adding 15 when it is outside the
\* warning band only, and no anomaly otherwise, never two; every critical
\* band contains its warning band.
C24_OneAnomalyPerScalarIndicator ==
    /\ \A p \in DOMAIN WARNING_THRESHOLDS :
          /\ CRITICAL_THRESHOLDS[p][1] <= WARNING_THRESHOLDS[p][1]
          /\ WARNING_THRESHOLDS[p][2] <= CRITICAL_THRESHOLDS[p][2]
    /\ pc = "analyzed" =>
          \A p \in DOMAIN WARNING_THRESHOLDS :
              LET found == AnomaliesOf(p)
              IN  IF Get(telemetry, p) # <<>> /\ Outside(telemetry[p][1], CRITICAL_THRESHOLDS[p])
                  THEN /\ Len(found) = 1
                       /\ found[1].severity = "critical"
                       /\ found[1].increment = 30
                       /\ Outside(telemetry[p][1], WARNING_THRESHOLDS[p])
                  ELSE IF Get(telemetry, p) # <<>>
                          /\ Outside(telemetry[p][1], WARNING_THRESHOLDS[p])
                  THEN /\ Len(found) = 1
                       /\ found[1].severity = "warning"
                       /\ found[1].increment = 15
                  ELSE found = <<>>

\* An analysis with a critical anomaly (engine_temp 150), a warning anomaly
\* (brake_wear 75, between 60 and 80) and a silent indicator.
C24_Witness ==
    /\ pc = "analyzed"
    /\ Len(AnomaliesOf("engine_temp")) = 1
    /\ AnomaliesOf("engine_temp")[1].severity = "critical"
    /\ Len(AnomaliesOf("brake_wear")) = 1
    /\ AnomaliesOf("brake_wear")[1].severity = "warning"
    /\ AnomaliesOf("oil_pressure") = <<>>

\* What an anomaly of the given parameter and severity adds to
\* severity_score: 30 / 15 for a scalar indicator, 20 / 10 for a tire, 25 for
\* a fault code.
IncrementOf(anomaly) ==
    IF anomaly.parameter \in DOMAIN WARNING_THRESHOLDS
    THEN IF anomaly.severity = "critical" THEN 30 ELSE 15
    ELSE IF anomaly.parameter \in Range(TirePositions)
    THEN IF anomaly.severity = "critical" THEN 20 ELSE 10
    ELSE 25

\* C25: analyze_telemetry_anomalies returns severity_score equal to the sum
\* of the increments of the anomalies it emitted (30 / 15 per scalar
\* indicator, 20 / 10 per tire, 25 per fault code), anomaly_count equal to
\* their number, overall_status 'critical' iff severity_score >= 50,
\* 'warning' iff 20 <= severity_score < 50, 'healthy' otherwise, and
\* health_score = max(0, 100 - severity_score).
C25_SeverityStatusAndHealth ==
    pc = "analyzed" =>
        /\ analysis.severity_score
              = SumSeq([k \in 1..Len(analysis.anomalies) |->
                            IncrementOf(analysis.anomalies[k])])
        /\ \A k \in 1..Len(analysis.anomalies) :
              analysis.anomalies[k].increment = IncrementOf(analysis.anomalies[k])
        /\ Len(SelectSeq(analysis.anomalies, LAMBDA a : a.parameter = "Error Code"))
              = Len(GetOr(telemetry, "error_codes", <<>>))
        /\ analysis.anomaly_count = Len(analysis.anomalies)
        /\ analysis.overall_status = "critical" <=> analysis.severity_score >= 50
        /\ analysis.overall_status = "warning"
              <=> analysis.severity_score >= 20 /\ analysis.severity_score < 50
        /\ analysis.overall_status \in {"critical", "warning", "healthy"}
        /\ analysis.health_score
              = IF analysis.severity_score >= 100 THEN 0
                ELSE 100 - analysis.severity_score

\* An analysis right on the threshold: two fault codes and nothing else give
\* severity_score 50, 'critical', health_score 50.
C25_Witness ==
    /\ pc = "analyzed"
    /\ analysis.severity_score = 50
    /\ analysis.anomaly_count = 2
    /\ analysis.overall_status = "critical"
    /\ analysis.health_score = 50

\* C26: a pass of orchestrate that returns has run either the prediction
\* stage alone or the four stages prediction, diagnosis, scheduling,
\* customer in this order: a diagnosis implies requires_scheduling, and a
\* scheduling result always has booking_created.
C26_OneStageOrFour ==
    /\ Returned =>
          /\ stages \in {<<"prediction">>,
                         <<"prediction", "diagnosis", "scheduling", "customer">>}
          /\ workflow_results.stages = stages
    /\ diagnosis_result # None => prediction_result.requires_scheduling
    /\ scheduling_result # None => scheduling_result.booking_created

\* A pass that returned after one stage although the report required
\* immediate attention (the classifier's risk alone, no critical
\* component), on a MasterAgent whose earlier pass ran all four.
C26_Witness ==
    /\ Returned
    /\ stages = <<"prediction">>
    /\ prediction_result.requires_scheduling
    /\ Len(bookings) > 0

\* The calls orchestrate makes to the database.
PersistenceOps == {"update_vehicle_health", "create_alert", "create_booking"}

\* C27: in a pass in which the customer stage ran, the notification was sent
\* before every persistence call; create_booking is called only after
\* update_vehicle_health and one create_alert per entry of alerts_to_create
\* have returned; so when a persistence call raises after the customer stage,
\* the customer has been notified and the pass stores no booking.
C27_NotifiedBeforePersisted ==
    /\ Ran("customer") =>
          /\ customer_result.status = "sent"
          /\ \A k \in 1..Len(calls) :
                calls[k].op \in PersistenceOps => Position("customer") < k
    /\ \A k \in 1..Len(calls) :
          calls[k].op = "create_booking" =>
              /\ \E j \in 1..(k - 1) : calls[j] = Call("update_vehicle_health", FALSE)
              /\ Cardinality({j \in 1..(k - 1) : calls[j] = Call("create_alert", FALSE)})
                    = Len(prediction_result.alerts_to_create)
    /\ (/\ pc = "raised"
        /\ Ran("customer")
        /\ calls[Len(calls)].op \in PersistenceOps)
       => /\ customer_result.status = "sent"
          /\ Added(bookings, marks.bookings) = <<>>

\* A pass that notified the customer, wrote the vehicle health and one
\* alert, and ended on a raising create_alert: no booking of this pass.
C27_Witness ==
    /\ pc = "raised"
    /\ Ran("customer")
    /\ calls[Len(calls)] = Call("create_alert", TRUE)
    /\ Len(Added(alerts, marks.alerts)) = 1
    /\ customer_result.status = "sent"
    /\ Added(bookings, marks.bookings) = <<>>

\* The indicators listed in the issues of a component entry.
ListedIndicators(entry) ==
    {entry.issues[k].indicator : k \in 1..Len(entry.issues)}

\* C28: in every component entry of a report, an indicator of the component
\* that the reading has is listed in the entry's issues exactly when its
\* value lies strictly outside its normal band (a value on a bound or inside
\* the band is never listed), and an entry with status warning or critical
\* has at least one issue.
C28_IssueIffStrictlyOutsideBand ==
    Reported =>
        \A c \in DOMAIN prediction_result.prediction_report.component_health :
            LET entry == prediction_result.prediction_report.component_health[c]
                indicators == COMPONENT_FAILURE_PATTERNS[c].indicators
            IN  /\ \A k \in 1..Len(indicators) :
                      Get(telemetry, indicators[k]) # <<>> =>
                          (indicators[k] \in ListedIndicators(entry)
                              <=> ~InBand(telemetry, indicators[k]))
                /\ entry.status \in {"warning", "critical"} =>
                      Len(entry.issues) >= 1

\* C29: every component a report gives the status 'critical' (and with it a
\* 'high' recommendation) has maintenance_urgency 'immediate' or 'soon',
\* never 'scheduled'.
C29_CriticalNeverScheduled ==
    Reported =>
        LET report == prediction_result.prediction_report
        IN  \A c \in DOMAIN report.component_health :
                report.component_health[c].status = "critical" =>
                    /\ \E k \in 1..Len(report.recommendations) :
                          /\ report.recommendations[k].component = c
                          /\ report.recommendations[k].priority = "high"
                    /\ report.component_health[c].maintenance_urgency
                          \in {"immediate", "soon"}

\* C30: every row of garages and of service_centers has
\* current_load <= capacity, and the last load update, if its id names no
\* row or its load_change would take the row's current_load above its
\* capacity, returned False and left the table as it was, and otherwise
\* returned True and added load_change to the row's current_load, every
\* other row as it was.
C30_LoadNeverAboveCapacity ==
    /\ \A id \in DOMAIN garages :
          garages[id].current_load <= garages[id].capacity
    /\ \A id \in DOMAIN service_centers :
          service_centers[id].current_load <= service_centers[id].capacity
    /\ load_call # None =>
          LET before == load_call.before
              after == IF load_call.op = "update_garage_load"
                       THEN garages ELSE service_centers
              id == load_call.id
          IN  IF \/ id \notin DOMAIN before
                 \/ before[id].current_load + load_call.load_change
                        > before[id].capacity
              THEN load_call.returned = FALSE /\ after = before
              ELSE /\ load_call.returned = TRUE
                   /\ after = [before EXCEPT
                                 ![id].current_load = @ + load_call.load_change]

\* A garage at its capacity has just been refused one more unit of load,
\* after other calls brought the service center's load below zero.
C30_Witness ==
    /\ load_call # None
    /\ load_call.op = "update_garage_load"
    /\ load_call.id \in DOMAIN garages
    /\ load_call.load_change = 1
    /\ load_call.returned = FALSE
    /\ garages[load_call.id].current_load = garages[load_call.id].capacity
    /\ \E id \in DOMAIN service_centers : service_centers[id].current_load < 0

====
